---- MODULE Spec2Model ----
(***************************************************************************)
(* Verification model of the task-dependency agent                         *)
(* (src/agent/worker_tda.py): the dependency resolver                      *)
(* (_resolve_dependencies), and process_task with its result cache (LTM).  *)
(*                                                                         *)
(* Task ids are the one-character strings "1", "2", ... of the tests; they *)
(* are written here as the integers 1, 2, ... (same ordering).  The tasks  *)
(* of a process_task call are those of its docstring: an id and a          *)
(* depends_on list.                                                        *)
(* A Python dict is a sequence of <<key, value>> pairs in insertion order  *)
(* with pairwise distinct keys.  Optional values are <<>> (None) or <<v>>. *)
(***************************************************************************)
EXTENDS Integers, Sequences, FiniteSets, TLC

(* ------------------------------ bounds --------------------------------- *)
\* task ids that may be declared as tasks of a resolver input
NumIds == 3
\* most tasks in one resolver input graph
MaxTasks == 3
\* most entries in one depends_on list
MaxDeps == 2
\* most depends_on entries in one resolver input graph, all tasks together
MaxEdges == 3

\* most process_task calls in one run
MaxCalls == 3

\* most handle_supervisor_request calls in one run
MaxRequests == 2
\* most tasks in the store; their ids are 1..MaxStored
MaxStored == 2
\* most dependencies the inference collaborator finds between the tasks
MaxInferred == 1
\* largest max_retries a store client is built with (the default is 3)
MaxRetries == 3
\* largest initial_backoff a store client is built with, in seconds
MaxBackoff == 2
\* most requests the service handles at the same time
MaxThreads == 2
\* most tasks, and most depends_on entries, of a graph resolved step by step
MaxWalk == 2

TaskIds == 1..NumIds
\* a depends_on list may name any id, a task of the same graph or not
DepIds == TaskIds

(* ------------------------- sequences and dicts ------------------------- *)
Range(s) == {s[i] : i \in 1..Len(s)}

\* list.index(x): position of the first occurrence
IndexOf(s, x) == CHOOSE i \in 1..Len(s) : s[i] = x /\ \A j \in 1..(i-1) : s[j] # x

\* all sequences over S of length at most n
SeqsUpTo(S, n) == UNION {[1..k -> S] : k \in 0..n}

\* all orders in which the elements of the set S can be iterated
SetOrders(S) == {s \in [1..Cardinality(S) -> S] : Range(s) = S}

\* keys of a dict in insertion order, and as a set
KeySeq(d) == [i \in 1..Len(d) |-> d[i][1]]
Keys(d) == {d[i][1] : i \in 1..Len(d)}

\* d[k] for a key k of d
DictAt(d, k) == d[CHOOSE i \in 1..Len(d) : d[i][1] = k][2]

\* d.get(k, default)
DictGet(d, k, default) == IF k \in Keys(d) THEN DictAt(d, k) ELSE default

\* d[k] = v: an existing key keeps its position, a new key goes last
DictSet(d, k, v) ==
    IF k \in Keys(d)
    THEN [i \in 1..Len(d) |-> IF d[i][1] = k THEN <<k, v>> ELSE d[i]]
    ELSE Append(d, <<k, v>>)

\* Python dict equality: same keys with the same values, order ignored
DictEq(d1, d2) == Range(d1) = Range(d2)

\* list(dict.fromkeys(s)): duplicates removed, first occurrences kept in order
RECURSIVE Uniq(_)
Uniq(s) ==
    IF s = <<>> THEN <<>>
    ELSE LET init == Uniq(SubSeq(s, 1, Len(s) - 1))
             x == s[Len(s)]
         IN IF x \in Range(init) THEN init ELSE Append(init, x)

(* --------------------- _resolve_dependencies: dfs ---------------------- *)
\* the closure variables of dfs before the first call
DfsInit == [visited |-> {}, stack |-> <<>>, cycles |-> <<>>]

RECURSIVE dfs(_, _, _)
RECURSIVE dfsDeps(_, _, _, _)

\* for dep in dag.get(node, []): if dep in dag: dfs(dep)    (from entry i on)
dfsDeps(dag, deps, i, st) ==
    IF i > Len(deps) THEN st
    ELSE dfsDeps(dag, deps, i + 1,
                 IF deps[i] \in Keys(dag) THEN dfs(dag, deps[i], st) ELSE st)

\* dfs with the final stack.pop() left out
dfs_no_pop(dag, node, st) ==
    IF node \in Range(st.stack)
    THEN LET cycle_start == IndexOf(st.stack, node)
             cycle == SubSeq(st.stack, cycle_start, Len(st.stack)) \o <<node>>
         IN [st EXCEPT !.cycles = Append(@, cycle)]
    ELSE IF node \in st.visited
    THEN st
    ELSE LET entered == [st EXCEPT !.visited = @ \cup {node},
                                   !.stack = Append(@, node)]
         IN dfsDeps(dag, DictGet(dag, node, <<>>), 1, entered)

\* dfs recording the whole stack instead of the slice from cycle_start
dfs_whole_stack(dag, node, st) ==
    IF node \in Range(st.stack)
    THEN [st EXCEPT !.cycles = Append(@, st.stack \o <<node>>)]
    ELSE IF node \in st.visited
    THEN st
    ELSE LET entered == [st EXCEPT !.visited = @ \cup {node},
                                   !.stack = Append(@, node)]
             explored == dfsDeps(dag, DictGet(dag, node, <<>>), 1, entered)
         IN [explored EXCEPT !.stack = SubSeq(@, 1, Len(@) - 1)]

\* dfs without the return on a visited node: a task can be pushed again
dfs_revisits(dag, node, st) ==
    IF node \in Range(st.stack)
    THEN LET cycle_start == IndexOf(st.stack, node)
             cycle == SubSeq(st.stack, cycle_start, Len(st.stack)) \o <<node>>
         IN [st EXCEPT !.cycles = Append(@, cycle)]
    ELSE LET entered == [st EXCEPT !.visited = @ \cup {node},
                                   !.stack = Append(@, node)]
             explored == dfsDeps(dag, DictGet(dag, node, <<>>), 1, entered)
         IN [explored EXCEPT !.stack = SubSeq(@, 1, Len(@) - 1)]

\* dfs(node), as a function from the closure variables to their new values
dfs(dag, node, st) ==
    IF node \in Range(st.stack)
    THEN LET cycle_start == IndexOf(st.stack, node)
             cycle == SubSeq(st.stack, cycle_start, Len(st.stack)) \o <<node>>
         IN [st EXCEPT !.cycles = Append(@, cycle)]
    ELSE IF node \in st.visited
    THEN st
    ELSE LET entered == [st EXCEPT !.visited = @ \cup {node},
                                   !.stack = Append(@, node)]
             explored == dfsDeps(dag, DictGet(dag, node, <<>>), 1, entered)
         IN [explored EXCEPT !.stack = SubSeq(@, 1, Len(@) - 1)]

\* for node in dag: if not visited.get(node, False): dfs(node)  (from key i on)
RECURSIVE dfsAll(_, _, _)
dfsAll(dag, i, st) ==
    IF i > Len(dag) THEN st
    ELSE dfsAll(dag, i + 1,
                IF dag[i][1] \in st.visited THEN st ELSE dfs(dag, dag[i][1], st))

\* the raw cycle records, in the order dfs appended them
RawCycles(dag) == dfsAll(dag, 1, DfsInit).cycles

(* --------------- _resolve_dependencies: topological sort --------------- *)
\* indegree[n] of the defaultdict(int): 0 for an id that has no entry yet
IndegreeAt(indegree, n) == IF n \in DOMAIN indegree THEN indegree[n] ELSE 0

\* indegree[n] += k (creates the entry when it is missing)
IndegreeAdd(indegree, n, k) ==
    [m \in DOMAIN indegree \cup {n} |->
        IF m = n THEN IndegreeAt(indegree, n) + k ELSE indegree[m]]

\* CountIndegree with the two increments swapped: the dependency is counted
RECURSIVE CountIndegree_of_dep(_, _, _, _)
CountIndegree_of_dep(dag, i, j, indegree) ==
    IF i > Len(dag) THEN indegree
    ELSE IF j > Len(dag[i][2]) THEN CountIndegree_of_dep(dag, i + 1, 1, indegree)
    ELSE CountIndegree_of_dep(dag, i, j + 1,
            IndegreeAdd(IndegreeAdd(indegree, dag[i][1], 0), dag[i][2][j], 1))

\* CountIndegree counting only the dependencies that are tasks of the graph
RECURSIVE CountIndegree_known_only(_, _, _, _)
CountIndegree_known_only(dag, i, j, indegree) ==
    IF i > Len(dag) THEN indegree
    ELSE IF j > Len(dag[i][2]) THEN CountIndegree_known_only(dag, i + 1, 1, indegree)
    ELSE CountIndegree_known_only(dag, i, j + 1,
            IF dag[i][2][j] \in Keys(dag)
            THEN IndegreeAdd(IndegreeAdd(indegree, dag[i][1], 1), dag[i][2][j], 0)
            ELSE indegree)

\* CountIndegree counting a dependency listed several times by a task once
RECURSIVE CountIndegree_distinct(_, _, _, _)
CountIndegree_distinct(dag, i, j, indegree) ==
    IF i > Len(dag) THEN indegree
    ELSE IF j > Len(dag[i][2]) THEN CountIndegree_distinct(dag, i + 1, 1, indegree)
    ELSE CountIndegree_distinct(dag, i, j + 1,
            IndegreeAdd(IndegreeAdd(indegree, dag[i][1],
                            IF dag[i][2][j] \in Range(SubSeq(dag[i][2], 1, j - 1))
                            THEN 0 ELSE 1),
                        dag[i][2][j], 0))

\* for node, deps in dag.items(): for dep in deps:
\*     indegree[node] += 1; indegree[dep] += 0        (from entry j of key i on)
RECURSIVE CountIndegree(_, _, _, _)
CountIndegree(dag, i, j, indegree) ==
    IF i > Len(dag) THEN indegree
    ELSE IF j > Len(dag[i][2]) THEN CountIndegree(dag, i + 1, 1, indegree)
    ELSE CountIndegree(dag, i, j + 1,
            IndegreeAdd(IndegreeAdd(indegree, dag[i][1], 1), dag[i][2][j], 0))

\* the empty defaultdict
NoIndegree == [n \in {} |-> 0]

\* for neighbor, deps in dag.items(): ...  after node was dequeued (from key i on)
RECURSIVE Relax(_, _, _, _, _)
Relax(dag, cycle_nodes, node, i, st) ==
    IF i > Len(dag) THEN st
    ELSE LET neighbor == dag[i][1]
             deps == dag[i][2]
         IN IF node \in Range(deps) /\ neighbor \notin cycle_nodes
            THEN LET dec == IndegreeAdd(st.indegree, neighbor, -1)
                     st1 == [st EXCEPT !.indegree = dec]
                 IN Relax(dag, cycle_nodes, node, i + 1,
                          IF dec[neighbor] = 0 /\ neighbor \notin st.processed
                          THEN [st1 EXCEPT !.queue = Append(@, neighbor)]
                          ELSE st1)
            ELSE Relax(dag, cycle_nodes, node, i + 1, st)

\* while queue: node = queue.popleft(); order.append(node); processed.add(node); ...
RECURSIVE KahnLoop(_, _, _)
\* KahnLoop with queue.pop() in place of queue.popleft()
KahnLoop_pop_right(dag, cycle_nodes, st) ==
    IF st.queue = <<>> THEN st
    ELSE LET node == st.queue[Len(st.queue)]
             popped == [st EXCEPT !.queue = SubSeq(@, 1, Len(@) - 1),
                                  !.order = Append(@, node),
                                  !.processed = @ \cup {node}]
         IN KahnLoop(dag, cycle_nodes, Relax(dag, cycle_nodes, node, 1, popped))

KahnLoop(dag, cycle_nodes, st) ==
    IF st.queue = <<>> THEN st
    ELSE LET node == Head(st.queue)
             popped == [st EXCEPT !.queue = Tail(@),
                                  !.order = Append(@, node),
                                  !.processed = @ \cup {node}]
         IN KahnLoop(dag, cycle_nodes, Relax(dag, cycle_nodes, node, 1, popped))

\* cycle_nodes = {n for cycle in cycles for n in cycle}
CycleNodes(cycles) == UNION {Range(cycles[i]) : i \in 1..Len(cycles)}

\* KahnOrder seeding the queue with every non-cycle task, whatever its indegree
KahnOrder_seed_all(dag, cycle_nodes) ==
    LET indegree == CountIndegree(dag, 1, 1, NoIndegree)
        Seed(n) == n \notin cycle_nodes
        start == [indegree |-> indegree,
                  queue |-> SelectSeq(KeySeq(dag), Seed),
                  processed |-> {},
                  order |-> <<>>]
    IN KahnLoop(dag, cycle_nodes, start).order

\* the order list built by the queue loop
KahnOrder(dag, cycle_nodes) ==
    LET indegree == CountIndegree(dag, 1, 1, NoIndegree)
        Seed(n) == IndegreeAt(indegree, n) = 0 /\ n \notin cycle_nodes
        start == [indegree |-> indegree,
                  queue |-> SelectSeq(KeySeq(dag), Seed),
                  processed |-> {},
                  order |-> <<>>]
    IN KahnLoop(dag, cycle_nodes, start).order

\* BlockedTasks without the test "n not in order"
BlockedTasks_keep_ordered(dag, order, cycle_nodes, cycle_list) ==
    LET Stuck(n) == n \notin cycle_nodes
    IN Uniq(SelectSeq(KeySeq(dag), Stuck) \o cycle_list)

\* BlockedTasks without the cycle nodes appended
BlockedTasks_no_cycle_nodes(dag, order, cycle_nodes, cycle_list) ==
    LET Stuck(n) == n \notin Range(order) /\ n \notin cycle_nodes
    IN Uniq(SelectSeq(KeySeq(dag), Stuck))

\* blocked, given the order in which list(cycle_nodes) iterates the set
BlockedTasks(dag, order, cycle_nodes, cycle_list) ==
    LET Stuck(n) == n \notin Range(order) /\ n \notin cycle_nodes
    IN Uniq(SelectSeq(KeySeq(dag), Stuck) \o cycle_list)

\* NormalizedCycles without the test on seen
NormalizedCycles_keep_all(cycles) == cycles

\* normalized_cycles: the records that differ as tuples, first occurrences kept

NormalizedCycles(cycles) == Uniq(cycles)

\* _resolve_dependencies(dag) -> (order, blocked, normalized_cycles);
\* cycle_list is the iteration order of the set cycle_nodes
_resolve_dependencies(dag, cycle_list) ==
    LET cycles == RawCycles(dag)
        cycle_nodes == CycleNodes(cycles)
        order == KahnOrder(dag, cycle_nodes)
    IN [order |-> order,
        blocked |-> BlockedTasks(dag, order, cycle_nodes, cycle_list),
        cycles |-> NormalizedCycles(cycles)]

\* the iteration orders list(cycle_nodes) can take for this graph
CycleListOrders(dag) == SetOrders(CycleNodes(RawCycles(dag)))

(* ------------------------- resolver input graphs ----------------------- *)
\* sum of the first n entries of a sequence of numbers
RECURSIVE SumTo(_, _)
SumTo(ls, n) == IF n = 0 THEN 0 ELSE SumTo(ls, n - 1) + ls[n]

\* the lengths of the depends_on lists of a graph with k tasks
LenTuples(k) == {ls \in [1..k -> 0..MaxDeps] : SumTo(ls, k) <= MaxEdges}

\* the key orders of the graphs: distinct task ids, in any declaration order
KeyOrders ==
    {ks \in SeqsUpTo(TaskIds, MaxTasks) :
        \A i, j \in 1..Len(ks) : i # j => ks[i] # ks[j]}

\* the dict with keys ks whose depends_on lists have the lengths ls and,
\* one after the other, the entries flat
MakeDag(ks, ls, flat) ==
    [i \in 1..Len(ks) |->
        <<ks[i], SubSeq(flat, SumTo(ls, i - 1) + 1, SumTo(ls, i))>>]

(* ------------------------ the result cache (LTM) ----------------------- *)
\* the empty dict {} of _ltm_store
EmptyStore == [k \in {} |-> <<>>]

\* the cache file before the first write
NoFile == [state |-> "absent", content |-> {}]

\* json.dump(self._ltm_store, f): the JSON object, one member per cache entry
json_dump(store) == {<<k, store[k]>> : k \in DOMAIN store}

\* json.load(f) of a JSON object: the dict with one entry per member
json_load(text) ==
    [k \in {m[1] : m \in text} |-> (CHOOSE m \in text : m[1] = k)[2]]

\* _load_ltm that does not look at the file
_load_ltm_no_file(file) == EmptyStore

\* _load_ltm(): the content of a readable file, {} for a missing or broken one
_load_ltm(file) ==
    IF file.state = "ok" THEN json_load(file.content) ELSE EmptyStore

\* how an attempt to write the cache file can end
SaveOutcomes == {"ok", "untouched", "corrupt"}

\* _save_ltm() with the given outcome: the file afterwards; "untouched" is a
\* failure before the file is opened, "corrupt" one after it was truncated
_save_ltm(store, file, outcome) ==
    CASE outcome = "ok" -> [state |-> "ok", content |-> json_dump(store)]
      [] outcome = "untouched" -> file
      [] outcome = "corrupt" -> [state |-> "corrupt", content |-> {}]

\* StoreSet that updates the entry of a key the store has, field by field,
\* as far as the execution order
StoreSet_in_place(store, key, value) ==
    [k \in DOMAIN store \cup {key} |->
        IF k # key THEN store[k]
        ELSE IF key \in DOMAIN store
        THEN [store[key] EXCEPT !.execution_order = value.execution_order]
        ELSE value]

\* self._ltm_store[key] = value
StoreSet(store, key, value) ==
    [k \in DOMAIN store \cup {key} |-> IF k = key THEN value ELSE store[k]]

\* write_to_ltm with the memory update moved after a successful save
write_to_ltm_after_save(store, file, key, value, outcome) ==
    [store |-> IF outcome = "ok" THEN StoreSet(store, key, value) ELSE store,
     file |-> _save_ltm(StoreSet(store, key, value), file, outcome),
     returned |-> outcome = "ok"]

\* write_to_ltm(key, value): new store, new file and the value returned
write_to_ltm(store, file, key, value, outcome) ==
    LET written == StoreSet(store, key, value)
    IN [store |-> written,
        file |-> _save_ltm(written, file, outcome),
        returned |-> TRUE]

\* read_from_ltm(key) = self._ltm_store.get(key): <<>> is None
read_from_ltm(store, key) == IF key \in DOMAIN store THEN <<store[key]>> ELSE <<>>

\* "if cached:" taken as "if cached has a non-empty execution_order"
Truthy_has_order(cached) == cached # <<>> /\ cached[1].execution_order # <<>>

\* "if cached:" - None and the empty dict are false
Truthy(cached) == cached # <<>> /\ DOMAIN cached[1] # {}

(* ----------------------------- process_task ---------------------------- *)
\* the tasks that occur in the task lists of the process_task calls
CallTasks ==
    {[id |-> 1, depends_on |-> <<>>],
     [id |-> 2, depends_on |-> <<>>], [id |-> 2, depends_on |-> <<1>>]}

\* the task lists of the calls: some of these tasks in any order, no two of
\* them with the same id
TaskLists ==
    {tl \in UNION {SetOrders(T) : T \in SUBSET CallTasks} :
        \A i, j \in 1..Len(tl) : i # j => tl[i].id # tl[j].id}

\* dag = {t["id"]: t.get("depends_on", []) for t in tasks}
RECURSIVE BuildDag(_)
BuildDag(tasks) ==
    IF tasks = <<>> THEN <<>>
    ELSE LET t == tasks[Len(tasks)]
         IN DictSet(BuildDag(SubSeq(tasks, 1, Len(tasks) - 1)), t.id, t.depends_on)

\* the elements of a set of ids in ascending order
RECURSIVE SortedIds(_)
SortedIds(S) ==
    IF S = {} THEN <<>>
    ELSE LET least == CHOOSE x \in S : \A y \in S : x <= y
         IN <<least>> \o SortedIds(S \ {least})

\* json.dumps(dag, sort_keys=True): the members in key order, values as given
CanonicalKey(dag) ==
    LET ks == SortedIds(Keys(dag))
    IN [i \in 1..Len(ks) |-> <<ks[i], DictAt(dag, ks[i])>>]

\* the hit payload without the from_ltm entry
HitPayload_untagged(cached) == cached

\* {"from_ltm": True, **cached}
HitPayload(cached) == cached @@ [from_ltm |-> TRUE]

\* the result dict of a miss
FreshResult(dag, resolved) ==
    [execution_order |-> resolved.order,
     blocked_tasks |-> resolved.blocked,
     cycles_detected |-> resolved.cycles,
     raw_graph |-> dag]

\* process_task({"tasks": tasks}) on an agent with the given store and file:
\* the new store and file, the returned payload and what the call did
process_task(store, file, tasks, cycle_list, outcome) ==
    LET dag == BuildDag(tasks)
        task_key == CanonicalKey(dag)
        cached == read_from_ltm(store, task_key)
    IN IF Truthy(cached)
       THEN [store |-> store, file |-> file,
             payload |-> HitPayload(cached[1]),
             ran_resolver |-> FALSE, wrote |-> <<>>, key |-> task_key]
       ELSE LET result == FreshResult(dag, _resolve_dependencies(dag, cycle_list))
                w == write_to_ltm(store, file, task_key, result, outcome)
            IN [store |-> w.store, file |-> w.file,
                payload |-> result,
                ran_resolver |-> TRUE, wrote |-> <<w.returned>>, key |-> task_key]

(* ----------------------- request payload values ------------------------ *)
\* a Python value carried by a request: <<type, content>>
Kind(x) == x[1]
Val(x) == x[2]

PyNone == <<"none", <<>>>>

\* the string that is the task id n
Id(n) == <<"id", n>>

\* a list of values
List(xs) == <<"list", xs>>

\* a dict with string keys, as <<key, value>> pairs
Obj(pairs) == <<"dict", pairs>>

\* any other string: what json.loads makes of it ("ok": it parses to value,
\* "malformed": JSONDecodeError, "too_deep": nested beyond the recursion
\* limit, RecursionError, "empty": the empty string)
Str(syntax, value) == <<"str", [syntax |-> syntax, value |-> value]>>

\* isinstance(x, str)
IsStr(x) == Kind(x) \in {"str", "id"}

\* "not x": None, "", [] and {} are false
Falsy(x) ==
    \/ Kind(x) = "none"
    \/ Kind(x) \in {"list", "dict"} /\ Val(x) = <<>>
    \/ Kind(x) = "str" /\ Val(x).syntax = "empty"

\* payload.get(key, default) on a field that is <<>> when the key is absent
GetOr(field, default) == IF field = <<>> THEN default ELSE field[1]

(* ------------------------- _extract_tasks ------------------------------ *)
\* the results of _extract_tasks: None, a list, or an exception that leaves it
NoTasks == [raised |-> <<>>, tasks |-> <<>>]
Found(list) == [raised |-> <<>>, tasks |-> <<list>>]
Escapes(exc) == [raised |-> <<exc>>, tasks |-> <<>>]

\* the text branch: json.loads(text_blob) and the two accepted shapes; only
\* JSONDecodeError is caught
ExtractFromText(text_blob) ==
    IF Kind(text_blob) = "id" THEN NoTasks
    ELSE CASE Val(text_blob).syntax = "ok" ->
                LET parsed == Val(text_blob).value
                    inner == IF Kind(parsed) = "dict"
                             THEN DictGet(Val(parsed), "tasks", PyNone)
                             ELSE PyNone
                IN IF Kind(parsed) = "dict" /\ Kind(inner) = "list"
                   THEN Found(Val(inner))
                   ELSE IF Kind(parsed) = "list" THEN Found(Val(parsed))
                   ELSE NoTasks
           [] Val(text_blob).syntax \in {"malformed", "empty"} -> NoTasks
           [] Val(text_blob).syntax = "too_deep" -> Escapes("RecursionError")

\* _extract_tasks(input_payload)
_extract_tasks(input_payload) ==
    IF Kind(input_payload) # "dict" THEN NoTasks
    ELSE LET d == Val(input_payload)
             tasks == DictGet(d, "tasks", PyNone)
             metadata == DictGet(d, "metadata", PyNone)
             extra == IF Kind(metadata) = "dict"
                      THEN DictGet(Val(metadata), "extra", PyNone) ELSE PyNone
             extra_tasks == IF Kind(extra) = "dict"
                            THEN DictGet(Val(extra), "tasks", PyNone) ELSE PyNone
             text_blob == DictGet(d, "text", PyNone)
         IN IF Kind(tasks) = "list" THEN Found(Val(tasks))
            ELSE IF Kind(extra_tasks) = "list" THEN Found(Val(extra_tasks))
            ELSE IF IsStr(text_blob) THEN ExtractFromText(text_blob)
            ELSE NoTasks

(* ------------------------- _validate_tasks ----------------------------- *)
\* the f-string text of a task id
IdText(id) == ToString(Val(id))

\* ValidateFrom naming the entries from 1 instead of 0
RECURSIVE ValidateFrom_one_based(_, _)
ValidateFrom_one_based(tasks, idx) ==
    IF idx >= Len(tasks) THEN <<>>
    ELSE LET task == tasks[idx + 1]
         IN IF Kind(task) # "dict"
            THEN <<"Task entry at index " \o ToString(idx + 1) \o " must be an object.">>
            ELSE IF "id" \notin Keys(Val(task))
            THEN <<"Task entry at index " \o ToString(idx + 1)
                     \o " is missing required field 'id'.">>
            ELSE LET depends_on == DictGet(Val(task), "depends_on", List(<<>>))
                 IN IF Kind(depends_on) # "none" /\ Kind(depends_on) # "list"
                    THEN <<"Task '" \o IdText(DictAt(Val(task), "id"))
                             \o "' depends_on must be a list.">>
                    ELSE ValidateFrom_one_based(tasks, idx + 1)

\* the loop of _validate_tasks from the entry with (0-based) index idx on:
\* <<>> is None, <<message>> the first violation
RECURSIVE ValidateFrom(_, _)
ValidateFrom(tasks, idx) ==
    IF idx >= Len(tasks) THEN <<>>
    ELSE LET task == tasks[idx + 1]
         IN IF Kind(task) # "dict"
            THEN <<"Task entry at index " \o ToString(idx) \o " must be an object.">>
            ELSE IF "id" \notin Keys(Val(task))
            THEN <<"Task entry at index " \o ToString(idx)
                     \o " is missing required field 'id'.">>
            ELSE LET depends_on == DictGet(Val(task), "depends_on", List(<<>>))
                 IN IF Kind(depends_on) # "none" /\ Kind(depends_on) # "list"
                    THEN <<"Task '" \o IdText(DictAt(Val(task), "id"))
                             \o "' depends_on must be a list.">>
                    ELSE ValidateFrom(tasks, idx + 1)

\* _validate_tasks(tasks)
_validate_tasks(tasks) ==
    IF tasks = <<>> THEN <<"Task list must be a non-empty list.">>
    ELSE ValidateFrom(tasks, 0)

(* ------------------ process_task on the tasks of a request ------------- *)
\* t.get("depends_on", []) of a validated entry: <<>> for None, <<deps>> for
\* a list of ids
DependsOn(task) ==
    LET d == DictGet(Val(task), "depends_on", List(<<>>))
    IN IF Kind(d) = "none" THEN <<>>
       ELSE <<[i \in 1..Len(Val(d)) |-> Val(Val(d)[i])]>>

\* dag = {t["id"]: t.get("depends_on", []) for t in tasks}, a value being
\* <<>> for None and <<deps>> for a list
RECURSIVE RawDag(_)
RawDag(tasks) ==
    IF tasks = <<>> THEN <<>>
    ELSE LET t == tasks[Len(tasks)]
         IN DictSet(RawDag(SubSeq(tasks, 1, Len(tasks) - 1)),
                    Val(DictAt(Val(t), "id")), DependsOn(t))

\* some value of the dag is None
HasNoneDeps(tasks) ==
    LET raw == RawDag(tasks) IN \E i \in 1..Len(raw) : raw[i][2] = <<>>

\* the entries as the task records of process_task, for a dag without a
\* None value: a None that a later entry with the same id overwrites never
\* reaches the dag, so any list can stand for it
TaskRecords(tasks) ==
    [i \in 1..Len(tasks) |->
        [id |-> Val(DictAt(Val(tasks[i]), "id")),
         depends_on |-> IF DependsOn(tasks[i]) = <<>> THEN <<>>
                        ELSE DependsOn(tasks[i])[1]]]

\* str(exc) of the TypeError raised by "for dep in None"
NoneNotIterable == "'NoneType' object is not iterable"

\* what process_task did: the exception it raised or the payload it
\* returned, and the cache afterwards
Raises(exc, store, file) ==
    [raised |-> <<exc>>, store |-> store, file |-> file, payload |-> <<>>]
Returns(r) ==
    [raised |-> <<>>, store |-> r.store, file |-> r.file, payload |-> <<r.payload>>]

\* process_task({"tasks": tasks}) for validated entries.  A dag with a None
\* value has a key with "null" in it, which no stored key has (only results
\* of completed resolutions are stored), so the lookup misses and dfs
\* reaches "for dep in dag.get(node, [])" with None: TypeError, nothing
\* written.
process_task_of_request(store, file, tasks, cycle_list, outcome) ==
    IF HasNoneDeps(tasks)
    THEN Raises(NoneNotIterable, store, file)
    ELSE Returns(process_task(store, file, TaskRecords(tasks), cycle_list, outcome))

(* --------------------- handle_supervisor_request ----------------------- *)
\* self._id of the deployed agent
AgentId == "task_dependency_agent"

SUPPORTED_INTENTS == {"task.resolve_dependencies"}

\* the confidence 0.92 of a success envelope, in hundredths
Confidence == 92

\* _error_response that leaves an output object in the envelope
_error_response_with_output(request_id, agent_name, error_type, message) ==
    [request_id |-> request_id,
     agent_name |-> IF agent_name = "" THEN AgentId ELSE agent_name,
     status |-> "error",
     output |-> <<[result |-> <<>>, confidence |-> 0, details |-> message]>>,
     error |-> <<[type |-> error_type, message |-> message]>>]

\* _error_response(request_id, agent_name, error_type, message)
_error_response(request_id, agent_name, error_type, message) ==
    [request_id |-> request_id,
     agent_name |-> IF agent_name = "" THEN AgentId ELSE agent_name,
     status |-> "error",
     output |-> <<>>,
     error |-> <<[type |-> error_type, message |-> message]>>]

\* the success envelope
SuccessResponse(request_id, agent_name, result) ==
    [request_id |-> request_id,
     agent_name |-> agent_name,
     status |-> "success",
     output |-> <<[result |-> result,
                   confidence |-> Confidence,
                   details |-> "Dependency resolution completed"]>>,
     error |-> <<>>]

NoShapeMessage ==
    "Provide tasks via input.tasks, input.metadata.extra.tasks, or JSON in input.text."

\* Returned for a handler that writes the cache file before every return
Returned_saving(envelope, store, file, fresh, resolved) ==
    [response |-> <<envelope>>, raised |-> <<>>, store |-> store,
     file |-> _save_ltm(store, file, "ok"),
     used_uuid |-> fresh, called_process_task |-> resolved]

\* what a call of the handler did: the envelope returned (<<>> when an
\* exception left the handler, then named in raised), the cache afterwards,
\* whether uuid4 was called and whether process_task was
Returned(envelope, store, file, fresh, resolved) ==
    [response |-> <<envelope>>, raised |-> <<>>, store |-> store, file |-> file,
     used_uuid |-> fresh, called_process_task |-> resolved]
Propagated(exc, store, file, fresh) ==
    [response |-> <<>>, raised |-> <<exc>>, store |-> store, file |-> file,
     used_uuid |-> fresh, called_process_task |-> FALSE]

\* RequestIdOf never echoing: a new identifier for every request
RequestIdOf_always_fresh(request_payload, uuid) == uuid

\* request_id = request_payload.get("request_id") or str(uuid.uuid4())
RequestIdOf(request_payload, uuid) ==
    IF GetOr(request_payload.request_id, "") # ""
    THEN request_payload.request_id[1] ELSE uuid

\* the identity check accepting every agent name
IdentityOk_any(agent_name) == TRUE

\* not (agent_name != self._id)
IdentityOk(agent_name) == agent_name = AgentId

\* the intent check accepting every intent
IntentOk_any(intent) == TRUE

\* not (intent not in self.SUPPORTED_INTENTS)
IntentOk(intent) == intent \in SUPPORTED_INTENTS

\* the try block around process_task and the return after it; p is what
\* process_task did
Resolution(request_id, agent_name, fresh, p) ==
    IF p.raised # <<>>
    THEN Returned(_error_response(request_id, agent_name, "runtime_error",
                                  p.raised[1]),
                  p.store, p.file, fresh, TRUE)
    ELSE Returned(SuccessResponse(request_id, agent_name, p.payload[1]),
                  p.store, p.file, fresh, TRUE)

\* handle_supervisor_request(request_payload); uuid is the value uuid4 gives
\* if it is called
handle_supervisor_request(store, file, request_payload, uuid, cycle_list, outcome) ==
    LET fresh == GetOr(request_payload.request_id, "") = ""
        request_id == RequestIdOf(request_payload, uuid)
        agent_name == GetOr(request_payload.agent_name, "")
        intent == GetOr(request_payload.intent, "")
        given == GetOr(request_payload.input, Obj(<<>>))
        input_payload == IF Falsy(given) THEN Obj(<<>>) ELSE given
        Error(type, message) ==
            Returned(_error_response(request_id, agent_name, type, message),
                     store, file, fresh, FALSE)
    IN IF ~IdentityOk(agent_name)
       THEN Error("invalid_agent",
                  "Expected agent '" \o AgentId \o "' but received '"
                      \o agent_name \o "'.")
       ELSE IF ~IntentOk(intent)
       THEN Error("unsupported_intent",
                  "Intent '" \o intent
                      \o "' is not supported. Use ['task.resolve_dependencies'].")
       ELSE LET extracted == _extract_tasks(input_payload)
            IN IF extracted.raised # <<>>
               THEN Propagated(extracted.raised[1], store, file, fresh)
               ELSE IF extracted.tasks = <<>>
               THEN Error("invalid_input", NoShapeMessage)
               ELSE LET tasks == extracted.tasks[1]
                        validation_error == _validate_tasks(tasks)
                    IN IF validation_error # <<>>
                       THEN Error("invalid_input", validation_error[1])
                       ELSE Resolution(request_id, agent_name, fresh,
                                process_task_of_request(store, file, tasks,
                                                        cycle_list, outcome))

(* ------------------------------- state --------------------------------- *)
VARIABLES
    graph,          \* the dag argument of the resolver call under study
    resolution,     \* <<>> before _resolve_dependencies returned, <<its result>> after
    _ltm_store,     \* self._ltm_store: canonical key -> cached result
    ltm_file,       \* the cache file: [state: absent | ok | corrupt, content]
    last,           \* <<>> or <<record of the latest process_task call on this agent>>
    unsaved,        \* keys this agent wrote while the cache file could not be written
    ncalls,         \* process_task calls made so far
    reply,          \* <<>> or <<record of the latest handle_supervisor_request call>>
    issued,         \* the identifiers uuid4 has returned so far
    nrequests,      \* handle_supervisor_request calls made so far
    db_client,      \* self.db_client: <<>> (None) or <<the stored tasks>>
    openrouter_client,  \* self.openrouter_client: <<>> (None) or <<its judgement>>
    calls,          \* the collaborator calls of the latest request, in order
    inference,      \* <<>> or <<an inference under study: its inputs and results>>
    ordered,        \* <<>> or <<what _calculate_execution_order returned for graph>>
    returned,       \* <<>> or <<what process_task of src/agents did for the tasks of graph>>
    retry,          \* <<>> or <<a call of _retry_with_backoff under study: its frame>>
    transaction,    \* <<>> or <<a call of update_tasks_batch under study>>
    threads,        \* <<>> or <<the requests being served at the same time, one per thread>>
    walk            \* <<>> or <<the frame of a _resolve_dependencies call run step by step>>

vars == <<graph, resolution, _ltm_store, ltm_file, last, unsaved, ncalls,
          reply, issued, nrequests, db_client, openrouter_client, calls,
          inference, ordered, returned,
          retry, transaction, threads, walk>>
agent_vars == <<_ltm_store, ltm_file, last, unsaved, ncalls,
                reply, issued, nrequests, db_client, openrouter_client, calls,
                inference, ordered, returned,
          retry, transaction, threads, walk>>
call_vars == <<last, unsaved, ncalls>>
request_vars == <<reply, issued, nrequests>>
collaborator_vars == <<db_client, openrouter_client, calls>>
study_vars == <<inference, ordered, returned,
          retry, transaction, threads, walk>>

\* TaskDependencyAgent(...) on a machine without a cache file
AgentInit ==
    /\ ltm_file = NoFile
    /\ _ltm_store = _load_ltm(NoFile)
    /\ last = <<>>
    /\ unsaved = {}
    /\ ncalls = 0
    /\ reply = <<>>
    /\ issued = {}
    /\ nrequests = 0

\* an agent built without a store client and without an API key
NoCollaborators ==
    /\ db_client = <<>>
    /\ openrouter_client = <<>>
    /\ calls = <<>>

\* no function of the collaborators is under study
NoStudy ==
    /\ inference = <<>>
    /\ walk = <<>>
    /\ ordered = <<>>
    /\ returned = <<>>
    /\ retry = <<>>
    /\ transaction = <<>>
    /\ threads = <<>>

(* ------------------- specification of a resolver call ------------------ *)
\* the call is made on any dict: task id -> depends_on list
InitResolve ==
    /\ \E ks \in KeyOrders :
         \E ls \in LenTuples(Len(ks)) :
           \E flat \in [1..SumTo(ls, Len(ks)) -> DepIds] :
             graph = MakeDag(ks, ls, flat)
    /\ resolution = <<>>
    /\ AgentInit
    /\ NoCollaborators
    /\ NoStudy

\* one call _resolve_dependencies(graph)
Resolve ==
    /\ resolution = <<>>
    /\ \E cycle_list \in CycleListOrders(graph) :
           resolution' = <<_resolve_dependencies(graph, cycle_list)>>
    /\ UNCHANGED <<graph, agent_vars>>

NextResolve == Resolve

SpecResolve == InitResolve /\ [][NextResolve]_vars

(* --------------------- specification of the agent ---------------------- *)
Init ==
    /\ graph = <<>>
    /\ resolution = <<>>
    /\ AgentInit
    /\ NoCollaborators
    /\ NoStudy

\* one call process_task({"tasks": tasks}); the cache file is written on a
\* miss only, and that write ends in any of SaveOutcomes
ProcessTask(tasks) ==
    /\ ncalls < MaxCalls
    /\ \E cycle_list \in CycleListOrders(BuildDag(tasks)),
          outcome \in IF CanonicalKey(BuildDag(tasks)) \in DOMAIN _ltm_store
                      THEN {"ok"} ELSE SaveOutcomes :
         LET r == process_task(_ltm_store, ltm_file, tasks, cycle_list, outcome)
             failed == r.wrote # <<>> /\ outcome # "ok"
         IN /\ _ltm_store' = r.store
            /\ ltm_file' = r.file
            /\ last' = <<[tasks |-> tasks,
                          key |-> r.key,
                          payload |-> r.payload,
                          ran_resolver |-> r.ran_resolver,
                          wrote |-> r.wrote,
                          save_failed |-> failed,
                          present |-> r.key \in DOMAIN _ltm_store,
                          first_call |-> last = <<>>,
                          repeated |-> last # <<>> /\ last[1].tasks = tasks]>>
            /\ unsaved' = IF failed THEN unsaved \cup {r.key} ELSE unsaved
    /\ ncalls' = ncalls + 1
    /\ UNCHANGED <<graph, resolution, request_vars, collaborator_vars, study_vars>>

\* the process ends and a new TaskDependencyAgent is built on the same file
Restart ==
    /\ ncalls > 0
    /\ _ltm_store' = _load_ltm(ltm_file)
    /\ last' = <<>>
    /\ unsaved' = {}
    /\ UNCHANGED <<graph, resolution, ltm_file, ncalls, request_vars,
                   collaborator_vars, study_vars>>

Next ==
    \/ \E tasks \in TaskLists : ProcessTask(tasks)
    \/ Restart

Spec == Init /\ [][Next]_vars

(* ------------- specification of the supervisor handshake --------------- *)
\* the task entries that occur in the requests
EntryA == Obj(<<<<"id", Id(1)>>, <<"depends_on", List(<<>>)>>>>)
EntryB == Obj(<<<<"id", Id(2)>>, <<"depends_on", List(<<Id(1)>>)>>>>)
EntryNoDeps == Obj(<<<<"id", Id(1)>>>>)
EntryNullDeps == Obj(<<<<"id", Id(1)>>, <<"depends_on", PyNone>>>>)
EntryStrDeps ==
    Obj(<<<<"id", Id(2)>>, <<"depends_on", Str("malformed", PyNone)>>>>)
EntryNoId == Obj(<<<<"depends_on", List(<<>>)>>>>)
EntryNotObject == Id(1)

RawEntries ==
    {EntryA, EntryB, EntryNoDeps, EntryNullDeps, EntryStrDeps, EntryNoId,
     EntryNotObject}

\* the task lists sent as input.tasks: none, one or two of these entries
EntryLists ==
    {<<>>} \cup {<<a>> : a \in RawEntries} \cup {<<a, b>> : a, b \in RawEntries}

\* three lists that resolve to different results, one for each location
ListA == <<EntryA>>
ListB == <<EntryB>>
ListC == <<EntryA, EntryB>>

\* a value that is neither None nor a list, a dict or JSON text
NotJson == Str("malformed", PyNone)

\* what input.tasks, input.metadata and input.text can be; <<>> is "absent"
TasksFields == {<<>>, <<NotJson>>, <<List(ListA)>>}
MetadataFields ==
    {<<>>, <<NotJson>>,
     <<Obj(<<<<"extra", NotJson>>>>)>>,
     <<Obj(<<<<"extra", Obj(<<<<"tasks", NotJson>>>>)>>>>)>>,
     <<Obj(<<<<"extra", Obj(<<<<"tasks", List(ListB)>>>>)>>>>)>>}
TextFields ==
    {<<>>, <<NotJson>>,
     <<Str("too_deep", PyNone)>>,
     <<Str("ok", PyNone)>>,
     <<Str("ok", Obj(<<<<"tasks", NotJson>>>>))>>,
     <<Str("ok", Obj(<<<<"tasks", List(ListC)>>>>))>>,
     <<Str("ok", List(ListC))>>}

\* the dict with the fields that are present
InputOf(tasks, metadata, text) ==
    Obj((IF tasks = <<>> THEN <<>> ELSE <<<<"tasks", tasks[1]>>>>)
        \o (IF metadata = <<>> THEN <<>> ELSE <<<<"metadata", metadata[1]>>>>)
        \o (IF text = <<>> THEN <<>> ELSE <<<<"text", text[1]>>>>))

OwnIntent == "task.resolve_dependencies"

\* a request payload; a field is <<>> when the key is absent
Request(request_id, agent_name, intent, input) ==
    [request_id |-> request_id, agent_name |-> agent_name,
     intent |-> intent, input |-> input]

\* requests that vary the envelope fields over a few inputs
EnvelopeRequests ==
    {Request(r, a, i, inp) :
        r \in {<<>>, <<"">>, <<"req-1">>},
        a \in {<<>>, <<AgentId>>, <<"wrong">>},
        i \in {<<>>, <<OwnIntent>>, <<"task.schedule">>},
        inp \in {<<>>, <<NotJson>>, <<Obj(<<<<"tasks", List(<<>>)>>>>)>>,
                 <<Obj(<<<<"tasks", List(ListA)>>>>)>>}}

\* requests that vary the three locations of the task list
LocationRequests ==
    {Request(<<"req-2">>, <<AgentId>>, <<OwnIntent>>, <<InputOf(t, m, x)>>) :
        t \in TasksFields, m \in MetadataFields, x \in TextFields}

\* requests that vary the task list
TaskListRequests ==
    {Request(<<"req-3">>, <<AgentId>>, <<OwnIntent>>,
             <<Obj(<<<<"tasks", List(l)>>>>)>>) : l \in EntryLists}

Requests == EnvelopeRequests \cup LocationRequests \cup TaskListRequests

\* the tasks process_task gets from this request, <<>> when it gets none or
\* cannot resolve them
ResolvedTasks(request_payload) ==
    LET given == GetOr(request_payload.input, Obj(<<>>))
        extracted == _extract_tasks(IF Falsy(given) THEN Obj(<<>>) ELSE given)
    IN IF /\ IdentityOk(GetOr(request_payload.agent_name, ""))
          /\ IntentOk(GetOr(request_payload.intent, ""))
          /\ extracted.tasks # <<>>
          /\ _validate_tasks(extracted.tasks[1]) = <<>>
          /\ ~HasNoneDeps(extracted.tasks[1])
       THEN TaskRecords(extracted.tasks[1])
       ELSE <<>>

\* one call handle_supervisor_request(request_payload).  uuid4 returns an
\* identifier it has not returned before; the cache file is written only
\* when process_task resolves a graph whose key is not in the cache.
HandleRequest(request_payload) ==
    /\ nrequests < MaxRequests
    /\ LET dag == BuildDag(ResolvedTasks(request_payload))
           writes == dag # <<>> /\ CanonicalKey(dag) \notin DOMAIN _ltm_store
           uuid == "uuid-" \o ToString(Cardinality(issued) + 1)
       IN \E cycle_list \in CycleListOrders(dag),
             outcome \in IF writes THEN SaveOutcomes ELSE {"ok"} :
            \E h \in {handle_supervisor_request(_ltm_store, ltm_file,
                         request_payload, uuid, cycle_list, outcome)} :
               /\ _ltm_store' = h.store
               /\ ltm_file' = h.file
               /\ reply' = <<[request |-> request_payload,
                              response |-> h.response,
                              raised |-> h.raised,
                              called_process_task |-> h.called_process_task,
                              used_uuid |-> h.used_uuid]>>
               /\ issued' = IF h.used_uuid THEN issued \cup {uuid} ELSE issued
    /\ nrequests' = nrequests + 1
    /\ UNCHANGED <<graph, resolution, call_vars, collaborator_vars, study_vars>>

NextHandshake == \E request_payload \in Requests : HandleRequest(request_payload)

SpecHandshake == Init /\ [][NextHandshake]_vars

(* ------- the store and the inference collaborator (src/agents) --------- *)
\* what a collaborator call did: the value it returned, or str(e) of the
\* exception it raised
Gives(value) == [raised |-> <<>>, value |-> <<value>>]
Fails(message) == [raised |-> <<message>>, value |-> <<>>]

\* the collaborator, if any, whose call fails during a request
Faults == {"none", "get_all_tasks", "infer_dependencies", "update_tasks_batch"}

\* str(e) of the failure the store client raises once its own retries are
\* used up, and of the RuntimeError of the inference client
StoreDown == "connection refused"
ApiDown == "Network error connecting to OpenRouter API: timed out"

StoredIds == 1..MaxStored

\* a stored task no update has touched, in the standardized form of
\* get_all_tasks (name, description and deadline play no part)
Stored(id) ==
    [id |-> id, depends_on |-> <<>>, execution_order |-> <<>>, status |-> "pending"]

\* the contents a store can start with: some of the tasks, in any order
Collections ==
    UNION {{[i \in 1..Len(ks) |-> Stored(ks[i])] : ks \in SetOrders(S)} :
              S \in SUBSET StoredIds}

\* what the language model behind the inference client says when it is
\* asked: the shape of its answer, the statements <<task, dependency>> it
\* makes, in order, and whether it leaves out the tasks it finds no
\* dependency for (as the prompt asks) or lists them with []
Judgement(shape, says, omits) == [shape |-> shape, says |-> says, omits |-> omits]

Statements == StoredIds \X StoredIds

\* the models that answer with a JSON object {"dependencies": {...}}
Judgements ==
    {Judgement("mapping", says, omits) :
        says \in SeqsUpTo(Statements, MaxInferred), omits \in BOOLEAN}

\* a collaborator call in the log: its name, its argument and str(e) of what
\* it raised (<<>> when it returned)
Call(name, argument, did) == <<name, argument, did.raised>>
CallName(c) == c[1]
CallArgument(c) == c[2]
CallFailed(c) == c[3] # <<>>
CallError(c) == c[3][1]

\* DatabaseClient.get_all_tasks()
get_all_tasks(collection, fault) ==
    IF fault = "get_all_tasks" THEN Fails(StoreDown) ELSE Gives(collection)

\* the update document of one entry of a batch, set on the task it names
ApplyUpdate(collection, task_update) ==
    [i \in 1..Len(collection) |->
        IF collection[i].id = task_update.id
        THEN [collection[i] EXCEPT !.depends_on = task_update.depends_on,
                                   !.execution_order = <<task_update.execution_order>>,
                                   !.status = task_update.status]
        ELSE collection[i]]

\* task_update.get("id") of an update without an id: None, which is falsy
NoId == 0

\* update_operation() from update i of the batch on, inside the transaction:
\* what it did and the collection as the transaction sees it
RECURSIVE UpdateOperation(_, _, _)
UpdateOperation(working, task_updates, i) ==
    IF i > Len(task_updates) THEN [did |-> Gives(TRUE), collection |-> working]
    ELSE LET task_id == task_updates[i].id
         IN IF task_id = NoId
            THEN [did |-> Fails("Task update missing 'id' field"),
                  collection |-> working]
            ELSE IF \A k \in 1..Len(working) : working[k].id # task_id
            THEN [did |-> Fails("Task with id '" \o ToString(task_id)
                                    \o "' not found in database"),
                  collection |-> working]
            ELSE UpdateOperation(ApplyUpdate(working, task_updates[i]),
                                 task_updates, i + 1)

\* update_tasks_batch whose writes stay when update_operation raises
update_tasks_batch_no_abort(collection, task_updates, fault) ==
    IF fault = "update_tasks_batch"
    THEN [did |-> Fails(StoreDown), collection |-> collection]
    ELSE UpdateOperation(collection, task_updates, 1)

\* DatabaseClient.update_tasks_batch(task_updates): one transaction, which
\* commits when update_operation returns and aborts when it raises; what the
\* call did and the store afterwards
update_tasks_batch(collection, task_updates, fault) ==
    IF fault = "update_tasks_batch"
    THEN [did |-> Fails(StoreDown), collection |-> collection]
    ELSE LET ran == UpdateOperation(collection, task_updates, 1)
         IN IF ran.did.raised # <<>>
            THEN [did |-> ran.did, collection |-> collection]
            ELSE ran

(* ------------------- the inference client ----------------------------- *)
\* the answers that are no JSON object with a dict of lists
Shapes ==
    {"mapping", "no_choices", "empty_content", "not_json", "not_object",
     "no_dependencies", "dependencies_not_dict", "deps_not_list"}

\* the failures of the HTTP request: none, no connection, or a status code
ApiFaults == {"none", "infer_dependencies", "http_401", "http_429", "http_500"}

\* the dict the model's statements make: task -> dependencies, keys in the
\* order of their first statement
RECURSIVE Grouped(_)
Grouped(says) ==
    IF says = <<>> THEN <<>>
    ELSE LET before == Grouped(SubSeq(says, 1, Len(says) - 1))
             s == says[Len(says)]
         IN DictSet(before, s[1], Append(DictGet(before, s[1], <<>>), Id(s[2])))

\* the "dependencies" object of the answer to a prompt that lists task_data
Voiced(judgement, task_data) ==
    LET grouped == Grouped(judgement.says)
        Silent(t) == t.id \notin Keys(grouped)
        silent == SelectSeq(task_data, Silent)
        stated == [i \in 1..Len(grouped) |->
                      <<grouped[i][1],
                        IF judgement.shape = "deps_not_list" THEN NotJson
                        ELSE List(grouped[i][2])>>]
    IN IF judgement.omits THEN stated
       ELSE stated \o [i \in 1..Len(silent) |-> <<silent[i].id, List(<<>>)>>]

\* the message content of the answer: a text, by what json.loads makes of it
\* once it is stripped of blanks and code fences
Content(judgement, task_data) ==
    CASE judgement.shape \in {"mapping", "deps_not_list"} ->
            Str("ok", Obj(<<<<"dependencies", Obj(Voiced(judgement, task_data))>>>>))
      [] judgement.shape = "empty_content" -> Str("empty", PyNone)
      [] judgement.shape = "not_json" -> Str("malformed", PyNone)
      [] judgement.shape = "not_object" -> Str("ok", List(<<>>))
      [] judgement.shape = "no_dependencies" -> Str("ok", Obj(<<>>))
      [] judgement.shape = "dependencies_not_dict" ->
            Str("ok", Obj(<<<<"dependencies", List(<<>>)>>>>))
      [] judgement.shape = "no_choices" -> PyNone

\* _make_request(prompt): the response of the API, its choices being <<>> or
\* <<content>>, or the failure of the request
_make_request(judgement, task_data, fault) ==
    CASE fault = "infer_dependencies" -> Fails("URLError")
      [] fault = "http_401" -> Fails("HTTPError 401")
      [] fault = "http_429" -> Fails("HTTPError 429")
      [] fault = "http_500" -> Fails("HTTPError 500")
      [] OTHER ->
            Gives([choices |-> IF judgement.shape = "no_choices" THEN <<>>
                               ELSE <<Content(judgement, task_data)>>])

\* the first key of the dependencies dict, from entry i on, that the checks
\* of _parse_response reject, with the message: <<>> when there is none
RECURSIVE FirstInvalid(_, _, _)
FirstInvalid(dependencies, valid_task_ids, i) ==
    IF i > Len(dependencies) THEN <<>>
    ELSE LET task_id == dependencies[i][1]
             deps == dependencies[i][2]
             Stray(dep_id) == Val(dep_id) \notin valid_task_ids
             strays == IF Kind(deps) = "list" THEN SelectSeq(Val(deps), Stray)
                       ELSE <<>>
         IN IF task_id \notin valid_task_ids
            THEN <<"Invalid task ID in dependencies: " \o ToString(task_id)>>
            ELSE IF Kind(deps) # "list"
            THEN <<"Dependencies for task " \o ToString(task_id) \o " must be a list">>
            ELSE IF strays # <<>>
            THEN <<"Invalid dependency ID '" \o ToString(Val(strays[1]))
                       \o "' for task '" \o ToString(task_id) \o "'">>
            ELSE FirstInvalid(dependencies, valid_task_ids, i + 1)

\* the returned dict: task id -> list of ids
Plain(dependencies) ==
    [i \in 1..Len(dependencies) |->
        <<dependencies[i][1],
          [j \in 1..Len(Val(dependencies[i][2])) |-> Val(Val(dependencies[i][2])[j])]>>]

\* the RuntimeError of the last handler of _parse_response
ParseError(message) == Fails("Error parsing API response: " \o message)

\* _parse_response that does not look at the dependency ids
_parse_response_keys_only(response, tasks) ==
    LET content == response.choices[1]
        parsed == Val(content).value
        dependencies == DictGet(Val(parsed), "dependencies", Obj(<<>>))
        valid_task_ids == {tasks[i].id : i \in 1..Len(tasks)}
        Stranger(e) == e[1] \notin valid_task_ids
    IN IF response.choices = <<>> THEN ParseError("API response contains no choices")
       ELSE IF Val(content).syntax = "empty"
       THEN ParseError("API response message content is empty")
       ELSE IF Val(content).syntax = "malformed"
       THEN Fails("Failed to parse JSON from API response: JSONDecodeError")
       ELSE IF Kind(parsed) # "dict"
       THEN ParseError("'list' object has no attribute 'get'")
       ELSE IF Kind(dependencies) # "dict"
       THEN ParseError("Dependencies field must be a dictionary")
       ELSE IF SelectSeq(Val(dependencies), Stranger) # <<>>
       THEN ParseError("Invalid task ID in dependencies: "
                           \o ToString(SelectSeq(Val(dependencies), Stranger)[1][1]))
       ELSE IF \E i \in 1..Len(Val(dependencies)) : Kind(Val(dependencies)[i][2]) # "list"
       THEN ParseError("Dependencies must be a list")
       ELSE Gives(Plain(Val(dependencies)))

\* _parse_response(response, tasks)
_parse_response(response, tasks) ==
    LET content == response.choices[1]
        parsed == Val(content).value
        dependencies == DictGet(Val(parsed), "dependencies", Obj(<<>>))
        valid_task_ids == {tasks[i].id : i \in 1..Len(tasks)}
        invalid == FirstInvalid(Val(dependencies), valid_task_ids, 1)
    IN IF response.choices = <<>> THEN ParseError("API response contains no choices")
       ELSE IF Val(content).syntax = "empty"
       THEN ParseError("API response message content is empty")
       ELSE IF Val(content).syntax = "malformed"
       THEN Fails("Failed to parse JSON from API response: JSONDecodeError")
       ELSE IF Kind(parsed) # "dict"
       THEN ParseError("'list' object has no attribute 'get'")
       ELSE IF Kind(dependencies) # "dict"
       THEN ParseError("Dependencies field must be a dictionary")
       ELSE IF invalid # <<>> THEN ParseError(invalid[1])
       ELSE Gives(Plain(Val(dependencies)))

\* str(e) of the RuntimeError infer_dependencies makes of a failed request
ApiError(failure) ==
    CASE failure = "URLError" -> ApiDown
      [] failure = "HTTPError 401" ->
            "Authentication failed. Check your OpenRouter API key. Error: "
      [] failure = "HTTPError 429" ->
            "Rate limit exceeded. Please retry later. Error: "
      [] failure = "HTTPError 500" ->
            "OpenRouter API request failed with status 500: "

\* OpenRouterClient.infer_dependencies(task_data): a dict task id -> list of
\* ids, or the error raised
infer_dependencies(judgement, task_data, fault) ==
    IF task_data = <<>> THEN Fails("Tasks list cannot be empty")
    ELSE LET response == _make_request(judgement, task_data, fault)
         IN IF response.raised # <<>> THEN Fails(ApiError(response.raised[1]))
            ELSE LET dependencies == _parse_response(response.value[1], task_data)
                 IN IF dependencies.raised # <<>>
                    THEN Fails("Unexpected error during API request: "
                                   \o dependencies.raised[1])
                    ELSE dependencies

(* ---------------- _infer_dependencies_with_llm ------------------------- *)
\* what a step of the workflow did, and the collaborator calls it made
Step(did, made) == [raised |-> did.raised, value |-> did.value, calls |-> made]

NoApiKey ==
    "OpenRouter client not initialized. Check OPENROUTER_API_KEY environment variable."

\* CompleteDependencies with entries for the mentioned tasks only
RECURSIVE CompleteDependencies_mentioned_only(_, _)
CompleteDependencies_mentioned_only(tasks, dependencies) ==
    IF tasks = <<>> THEN <<>>
    ELSE LET task_id == tasks[Len(tasks)].id
             before == CompleteDependencies_mentioned_only(
                           SubSeq(tasks, 1, Len(tasks) - 1), dependencies)
         IN IF task_id \in Keys(dependencies)
            THEN DictSet(before, task_id, DictAt(dependencies, task_id))
            ELSE before

\* for task in tasks: complete_dependencies[task["id"]] =
\*     dependencies.get(task["id"], [])
RECURSIVE CompleteDependencies(_, _)
CompleteDependencies(tasks, dependencies) ==
    IF tasks = <<>> THEN <<>>
    ELSE DictSet(CompleteDependencies(SubSeq(tasks, 1, Len(tasks) - 1), dependencies),
                 tasks[Len(tasks)].id,
                 DictGet(dependencies, tasks[Len(tasks)].id, <<>>))

\* _infer_dependencies_with_llm(tasks)
_infer_dependencies_with_llm(client, tasks, fault) ==
    IF client = <<>> THEN Step(Fails(NoApiKey), <<>>)
    ELSE LET task_data == [i \in 1..Len(tasks) |-> [id |-> tasks[i].id]]
             answer == infer_dependencies(client[1], task_data, fault)
             made == <<Call("infer_dependencies", task_data, answer)>>
         IN IF answer.raised # <<>>
            THEN Step(Fails("Failed to infer dependencies: " \o answer.raised[1]), made)
            ELSE Step(Gives(CompleteDependencies(tasks, answer.value[1])), made)

(* ----------------- _calculate_execution_order -------------------------- *)
\* for task_id, deps in dependencies.items(): for dep in deps:
\*     if dep in in_degree: in_degree[task_id] += 1     (from entry j of key i on)
\* InDegree counting each dependency of a task once, however often it is listed
RECURSIVE InDegree_distinct(_, _, _, _)
InDegree_distinct(dependencies, i, j, in_degree) ==
    IF i > Len(dependencies) THEN in_degree
    ELSE InDegree_distinct(dependencies, i + 1, 1,
            [in_degree EXCEPT ![dependencies[i][1]] =
                Cardinality(Range(dependencies[i][2]) \cap DOMAIN in_degree)])

RECURSIVE InDegree(_, _, _, _)
InDegree(dependencies, i, j, in_degree) ==
    IF i > Len(dependencies) THEN in_degree
    ELSE IF j > Len(dependencies[i][2]) THEN InDegree(dependencies, i + 1, 1, in_degree)
    ELSE InDegree(dependencies, i, j + 1,
            IF dependencies[i][2][j] \in DOMAIN in_degree
            THEN [in_degree EXCEPT ![dependencies[i][1]] = @ + 1]
            ELSE in_degree)

\* for task_id, deps in dependencies.items(): ...  after current was
\* dequeued (from key i on)
RECURSIVE Reduce(_, _, _, _)
Reduce(dependencies, current, i, st) ==
    IF i > Len(dependencies) THEN st
    ELSE LET task_id == dependencies[i][1]
             deps == dependencies[i][2]
         IN IF current \in Range(deps)
            THEN LET st1 == [st EXCEPT !.in_degree[task_id] = @ - 1]
                 IN Reduce(dependencies, current, i + 1,
                           IF st1.in_degree[task_id] = 0
                              /\ task_id \notin Range(st.execution_order)
                           THEN [st1 EXCEPT !.queue = Append(@, task_id)]
                           ELSE st1)
            ELSE Reduce(dependencies, current, i + 1, st)

\* while queue: current = queue.popleft(); execution_order.append(current); ...
RECURSIVE OrderLoop(_, _)
OrderLoop(dependencies, st) ==
    IF st.queue = <<>> THEN st
    ELSE LET current == Head(st.queue)
             popped == [st EXCEPT !.queue = Tail(@),
                                  !.execution_order = Append(@, current)]
         IN OrderLoop(dependencies, Reduce(dependencies, current, 1, popped))

\* _calculate_execution_order with every task in the first queue
_calculate_execution_order_seed_all(dependencies) ==
    LET in_degree == InDegree(dependencies, 1, 1, [n \in Keys(dependencies) |-> 0])
    IN OrderLoop(dependencies,
                 [in_degree |-> in_degree,
                  queue |-> KeySeq(dependencies),
                  execution_order |-> <<>>]).execution_order

\* _calculate_execution_order(dependencies)
_calculate_execution_order(dependencies) ==
    LET in_degree == InDegree(dependencies, 1, 1, [n \in Keys(dependencies) |-> 0])
        Free(n) == in_degree[n] = 0
    IN OrderLoop(dependencies,
                 [in_degree |-> in_degree,
                  queue |-> SelectSeq(KeySeq(dependencies), Free),
                  execution_order |-> <<>>]).execution_order

(* ------------------ process_task of src/agents ------------------------- *)
\* process_task that reports the tasks it could not order
agents_process_task_with_blocked(client, tasks, fault) ==
    IF tasks = <<>>
    THEN Step(Gives([dependencies |-> <<>>, execution_order |-> <<>>]), <<>>)
    ELSE LET inferred == _infer_dependencies_with_llm(client, tasks, fault)
         IN IF inferred.raised # <<>> THEN inferred
            ELSE LET order == _calculate_execution_order(inferred.value[1])
                     Left(n) == n \notin Range(order)
                 IN Step(Gives([dependencies |-> inferred.value[1],
                                execution_order |-> order,
                                blocked_tasks |->
                                    SelectSeq(KeySeq(inferred.value[1]), Left)]),
                         inferred.calls)

\* process_task({"tasks": tasks}) of the inferring agent
agents_process_task(client, tasks, fault) ==
    IF tasks = <<>>
    THEN Step(Gives([dependencies |-> <<>>, execution_order |-> <<>>]), <<>>)
    ELSE LET inferred == _infer_dependencies_with_llm(client, tasks, fault)
         IN IF inferred.raised # <<>> THEN inferred
            ELSE Step(Gives([dependencies |-> inferred.value[1],
                             execution_order |->
                                 _calculate_execution_order(inferred.value[1])]),
                      inferred.calls)

(* ---------------------- the store workflow ----------------------------- *)
NoDbClient == "Database client not initialized"

\* retrieve_tasks_from_database()
retrieve_tasks_from_database(db, fault) ==
    IF db = <<>> THEN Step(Fails(NoDbClient), <<>>)
    ELSE LET tasks == get_all_tasks(db[1], fault)
             made == <<Call("get_all_tasks", <<>>, tasks)>>
         IN IF tasks.raised # <<>>
            THEN Step(Fails("Failed to retrieve tasks from database: "
                                \o tasks.raised[1]), made)
            ELSE Step(tasks, made)

\* TaskUpdates numbering the positions from 0
TaskUpdates_from_zero(dependencies, execution_order) ==
    [idx \in 1..Len(execution_order) |->
        [id |-> execution_order[idx],
         depends_on |-> DictGet(dependencies, execution_order[idx], <<>>),
         execution_order |-> idx - 1,
         status |-> "ready"]]

\* the update payloads: one for each task of execution_order, idx + 1 being
\* the place of the task counted from 1
TaskUpdates(dependencies, execution_order) ==
    [idx \in 1..Len(execution_order) |->
        [id |-> execution_order[idx],
         depends_on |-> DictGet(dependencies, execution_order[idx], <<>>),
         execution_order |-> idx,
         status |-> "ready"]]

\* update_tasks_in_database(dependencies, execution_order): what it did, the
\* calls it made and the store client afterwards
update_tasks_in_database(db, dependencies, execution_order, fault) ==
    IF db = <<>> THEN [step |-> Step(Fails(NoDbClient), <<>>), db |-> db]
    ELSE LET task_updates == TaskUpdates(dependencies, execution_order)
             u == update_tasks_batch(db[1], task_updates, fault)
             made == <<Call("update_tasks_batch", task_updates, u.did)>>
         IN IF u.did.raised # <<>>
            THEN [step |-> Step(Fails("Failed to update tasks in database: "
                                          \o u.did.raised[1]), made),
                  db |-> <<u.collection>>]
            ELSE [step |-> Step(u.did, made), db |-> <<u.collection>>]

NoTasksMessage == "No tasks found in database"

\* the rest of the workflow once process_task has returned
UpdateStep(db, processed, made, fault) ==
    IF processed.raised # <<>>
    THEN [step |-> Step(processed, made \o processed.calls), db |-> db]
    ELSE LET result == processed.value[1]
             u == update_tasks_in_database(db, result.dependencies,
                                           result.execution_order, fault)
             all == made \o processed.calls \o u.step.calls
         IN IF u.step.raised # <<>>
            THEN [step |-> Step(u.step, all), db |-> u.db]
            ELSE [step |-> Step(Gives(result), all), db |-> u.db]

\* process_task_with_database that asks for the dependencies of an empty store
process_task_with_database_infers_empty(db, client, fault) ==
    LET retrieved == retrieve_tasks_from_database(db, fault)
    IN IF retrieved.raised # <<>> THEN [step |-> retrieved, db |-> db]
       ELSE UpdateStep(db,
                       _infer_dependencies_with_llm(client, retrieved.value[1], fault),
                       retrieved.calls, fault)

\* process_task_with_database that writes to the store whatever process_task did
process_task_with_database_always_updates(db, client, fault) ==
    LET retrieved == retrieve_tasks_from_database(db, fault)
        tasks == IF retrieved.raised # <<>> THEN <<>> ELSE retrieved.value[1]
        processed == agents_process_task(client, tasks, fault)
        u == update_tasks_in_database(db, <<>>, [i \in 1..Len(tasks) |-> tasks[i].id],
                                      fault)
    IN IF retrieved.raised # <<>>
       THEN [step |-> retrieved, db |-> db]
       ELSE IF processed.raised # <<>>
       THEN [step |-> Step(processed, retrieved.calls \o processed.calls \o u.step.calls),
             db |-> u.db]
       ELSE UpdateStep(db, processed, retrieved.calls, fault)

\* process_task_with_database(): what it did, the collaborator calls it made
\* and the store client afterwards
process_task_with_database(db, client, fault) ==
    LET retrieved == retrieve_tasks_from_database(db, fault)
    IN IF retrieved.raised # <<>> THEN [step |-> retrieved, db |-> db]
       ELSE IF retrieved.value[1] = <<>>
       THEN [step |-> Step(Gives([dependencies |-> <<>>,
                                  execution_order |-> <<>>,
                                  message |-> NoTasksMessage]),
                           retrieved.calls),
             db |-> db]
       ELSE UpdateStep(db, agents_process_task(client, retrieved.value[1], fault),
                       retrieved.calls, fault)

(* ------------- handle_supervisor_request of src/agents ----------------- *)
\* a string that is no JSON text, told apart by its word
Word(word) == Str("malformed", <<"word", word>>)

\* str(exc) of input_payload.get on a string
NoGet == "'str' object has no attribute 'get'"

\* what a call of the handler did: the envelope returned (<<>> when an
\* exception left the handler), the store client afterwards and the
\* collaborator calls made
Answered(envelope, db, made, fresh) ==
    [response |-> <<envelope>>, raised |-> <<>>, db |-> db, calls |-> made,
     used_uuid |-> fresh]
Thrown(exc, db, fresh) ==
    [response |-> <<>>, raised |-> <<exc>>, db |-> db, calls |-> <<>>,
     used_uuid |-> fresh]

\* the try block around a workflow and the return after it
Outcome(request_id, agent_name, fresh, step, db) ==
    IF step.raised # <<>>
    THEN Answered(_error_response(request_id, agent_name, "runtime_error",
                                  step.raised[1]),
                  db, step.calls, fresh)
    ELSE Answered(SuccessResponse(request_id, agent_name, step.value[1]),
                  db, step.calls, fresh)

\* the store workflow and its try block
Triggered(request_id, agent_name, fresh, w) ==
    Outcome(request_id, agent_name, fresh, w.step, w.db)

\* handle_supervisor_request(request_payload) of the inferring agent
agents_handle_supervisor_request(db, client, request_payload, uuid, fault) ==
    LET fresh == GetOr(request_payload.request_id, "") = ""
        request_id == RequestIdOf(request_payload, uuid)
        agent_name == GetOr(request_payload.agent_name, "")
        intent == GetOr(request_payload.intent, "")
        given == GetOr(request_payload.input, Obj(<<>>))
        input_payload == IF Falsy(given) THEN Obj(<<>>) ELSE given
        Error(type, message) ==
            Answered(_error_response(request_id, agent_name, type, message),
                     db, <<>>, fresh)
    IN IF ~IdentityOk(agent_name)
       THEN Error("invalid_agent",
                  "Expected agent '" \o AgentId \o "' but received '"
                      \o agent_name \o "'.")
       ELSE IF ~IntentOk(intent)
       THEN Error("unsupported_intent",
                  "Intent '" \o intent
                      \o "' is not supported. Use ['task.resolve_dependencies'].")
       ELSE IF Kind(input_payload) # "dict"
       THEN Thrown(NoGet, db, fresh)
       ELSE IF DictGet(Val(input_payload), "trigger", PyNone) = Word("database_update")
       THEN Triggered(request_id, agent_name, fresh,
                      process_task_with_database(db, client, fault))
       ELSE LET extracted == _extract_tasks(input_payload)
            IN IF extracted.raised # <<>>
               THEN Thrown(extracted.raised[1], db, fresh)
               ELSE IF extracted.tasks = <<>>
               THEN Error("invalid_input", NoShapeMessage)
               ELSE LET tasks == extracted.tasks[1]
                        validation_error == _validate_tasks(tasks)
                    IN IF validation_error # <<>>
                       THEN Error("invalid_input", validation_error[1])
                       ELSE Outcome(request_id, agent_name, fresh,
                                    agents_process_task(client, TaskRecords(tasks),
                                                        fault),
                                    db)

(* ---------------- specification of the store workflow ------------------ *)
\* TaskDependencyAgent(..., db_client) with or without a store client and
\* with or without an API key
InitDatabase ==
    /\ graph = <<>>
    /\ resolution = <<>>
    /\ AgentInit
    /\ db_client \in {<<>>} \cup {<<c>> : c \in Collections}
    /\ openrouter_client \in {<<>>} \cup {<<j>> : j \in Judgements}
    /\ calls = <<>>
    /\ NoStudy

TriggerInput == Obj(<<<<"trigger", Word("database_update")>>>>)

\* the requests: the store trigger alone, with tasks beside it and under a
\* wrong name or intent; other triggers and none, with and without tasks;
\* an input that is no dict
DatabaseRequests ==
    {Request(<<"req-4">>, <<a>>, <<i>>, <<TriggerInput>>) :
        a \in {AgentId, "wrong"}, i \in {OwnIntent, "task.schedule"}}
    \cup
    {Request(<<"req-4">>, <<AgentId>>, <<OwnIntent>>, <<inp>>) :
        inp \in {Obj(<<<<"trigger", Word("database_update")>>,
                       <<"tasks", List(ListC)>>>>),
                 Obj(<<<<"trigger", Word("manual")>>, <<"tasks", List(ListC)>>>>),
                 Obj(<<<<"trigger", PyNone>>>>),
                 Obj(<<<<"tasks", List(<<EntryNoId>>)>>>>),
                 NotJson}}

\* the collaborators a request can reach: all of them on the store path,
\* the inference client with tasks in the request, none when it is rejected
\* before
FaultsFor(request_payload) ==
    LET given == GetOr(request_payload.input, Obj(<<>>))
        input_payload == IF Falsy(given) THEN Obj(<<>>) ELSE given
    IN IF \/ ~IdentityOk(GetOr(request_payload.agent_name, ""))
          \/ ~IntentOk(GetOr(request_payload.intent, ""))
          \/ Kind(input_payload) # "dict"
       THEN {"none"}
       ELSE IF DictGet(Val(input_payload), "trigger", PyNone) = Word("database_update")
       THEN Faults
       ELSE {"none", "infer_dependencies"}

\* one call handle_supervisor_request(request_payload) on the inferring
\* agent, during which at most one collaborator fails
HandleDatabaseRequest(request_payload, fault) ==
    /\ nrequests < MaxRequests
    /\ LET uuid == "uuid-" \o ToString(Cardinality(issued) + 1)
       IN \E h \in {agents_handle_supervisor_request(db_client, openrouter_client,
                        request_payload, uuid, fault)} :
            /\ db_client' = h.db
            /\ calls' = h.calls
            /\ reply' = <<[request |-> request_payload,
                           response |-> h.response,
                           raised |-> h.raised,
                           used_uuid |-> h.used_uuid]>>
            /\ issued' = IF h.used_uuid THEN issued \cup {uuid} ELSE issued
    /\ nrequests' = nrequests + 1
    /\ UNCHANGED <<graph, resolution, _ltm_store, ltm_file, call_vars,
                   openrouter_client, study_vars>>

NextDatabase ==
    \E request_payload \in DatabaseRequests :
        \E fault \in FaultsFor(request_payload) :
            HandleDatabaseRequest(request_payload, fault)

SpecDatabase == InitDatabase /\ [][NextDatabase]_vars

(* ---------------- specification of an inference ----------------------- *)
\* the models behind the client: those that answer with a mapping, those
\* that put something else in place of a dependency list, and one for each
\* other shape of answer
AnyJudgements ==
    Judgements
    \cup {Judgement("deps_not_list", says, omits) :
             says \in SeqsUpTo(Statements, MaxInferred) \ {<<>>}, omits \in BOOLEAN}
    \cup {Judgement(shape, <<>>, TRUE) :
             shape \in Shapes \ {"mapping", "deps_not_list"}}

\* the task lists an inference is asked for: up to MaxStored tasks, an id
\* possibly more than once
AskedTasks ==
    {[i \in 1..Len(ks) |-> [id |-> ks[i]]] : ks \in SeqsUpTo(StoredIds, MaxStored)}

\* an agent with or without an API key, a task list and what the request to
\* the API will do
InitInfer ==
    /\ graph = <<>>
    /\ walk = <<>>
    /\ resolution = <<>>
    /\ AgentInit
    /\ db_client = <<>>
    /\ calls = <<>>
    /\ openrouter_client \in {<<>>} \cup {<<j>> : j \in AnyJudgements}
    /\ \E tasks \in AskedTasks, fault \in ApiFaults :
          inference = <<[tasks |-> tasks, fault |-> fault,
                         answer |-> <<>>, mapping |-> <<>>]>>
    /\ ordered = <<>>
    /\ returned = <<>>
    /\ retry = <<>>
    /\ transaction = <<>>
    /\ threads = <<>>

\* one call self.openrouter_client.infer_dependencies(task_data)
InferDependencies ==
    /\ openrouter_client # <<>>
    /\ inference[1].answer = <<>>
    /\ inference' = <<[inference[1] EXCEPT !.answer =
                         <<infer_dependencies(openrouter_client[1],
                               [i \in 1..Len(inference[1].tasks) |->
                                   [id |-> inference[1].tasks[i].id]],
                               inference[1].fault)>>]>>
    /\ UNCHANGED <<walk, graph, resolution, _ltm_store, ltm_file, call_vars,
                   request_vars, collaborator_vars, ordered, returned,
                   retry, transaction, threads>>

\* one call _infer_dependencies_with_llm(tasks)
InferWithLlm ==
    /\ inference[1].mapping = <<>>
    /\ inference' = <<[inference[1] EXCEPT !.mapping =
                         <<_infer_dependencies_with_llm(openrouter_client,
                               inference[1].tasks, inference[1].fault)>>]>>
    /\ UNCHANGED <<walk, graph, resolution, _ltm_store, ltm_file, call_vars,
                   request_vars, collaborator_vars, ordered, returned,
                   retry, transaction, threads>>

NextInfer == InferDependencies \/ InferWithLlm

SpecInfer == InitInfer /\ [][NextInfer]_vars

(* ------------- specification of an ordering pass ----------------------- *)
\* one call _calculate_execution_order(graph)
CalculateOrder ==
    /\ ordered = <<>>
    /\ ordered' = <<_calculate_execution_order(graph)>>
    /\ UNCHANGED <<walk, graph, resolution, _ltm_store, ltm_file, call_vars,
                   request_vars, collaborator_vars, inference, returned,
                   retry, transaction, threads>>

NextOrder == CalculateOrder

SpecOrder == InitResolve /\ [][NextOrder]_vars

(* ------- specification of process_task of src/agents ------------------- *)
\* the statements of a language model that finds the dependencies d between
\* the tasks it is asked about (from key i of d on)
RECURSIVE SaysOf(_, _)
SaysOf(d, i) ==
    IF i > Len(d) THEN <<>>
    ELSE [j \in 1..Len(d[i][2]) |-> <<d[i][1], d[i][2][j]>>] \o SaysOf(d, i + 1)

\* one call process_task({"tasks": tasks}) of src/agents, the tasks being the
\* keys of graph and the language model finding the dependencies of graph
ProcessInferred ==
    /\ returned = <<>>
    /\ \E omits \in BOOLEAN :
          returned' = <<agents_process_task(
                             <<Judgement("mapping", SaysOf(graph, 1), omits)>>,
                             [i \in 1..Len(graph) |-> [id |-> graph[i][1]]],
                             "none")>>
    /\ UNCHANGED <<walk, graph, resolution, _ltm_store, ltm_file, call_vars,
                   request_vars, collaborator_vars, inference, ordered,
                   retry, transaction, threads>>

NextProcess == ProcessInferred

SpecProcess == InitResolve /\ [][NextProcess]_vars

(* ------------- specification of _retry_with_backoff -------------------- *)
\* the failures of a connection to the store
Transient == {"ConnectionFailure", "ServerSelectionTimeoutError"}

\* except (ConnectionFailure, ServerSelectionTimeoutError, OperationFailure)
Caught == Transient \cup {"OperationFailure"}

\* what a run of the operation can raise: the errors of the driver and the
\* ValueError of update_operation
Raisable == Caught \cup {"ValueError"}

\* 2 ** attempt
RECURSIVE Pow2(_)
Pow2(attempt) == IF attempt = 0 THEN 1 ELSE 2 * Pow2(attempt - 1)

\* the entries of the log of a call: a run of the operation with what it
\* did ("ok" or the exception raised), a time.sleep with its seconds
Attempted(did) == <<"attempt", did>>
Slept(backoff_time) == <<"sleep", backoff_time>>

\* the frame of _retry_with_backoff when the call begins, for a client built
\* with max_retries and initial_backoff
RetryFrame(max_retries, initial_backoff) ==
    [max_retries |-> max_retries,
     initial_backoff |-> initial_backoff,
     attempt |-> 0,
     at |-> "try",
     last_exception |-> <<>>,
     events |-> <<>>,
     result |-> <<>>]

InitRetry ==
    /\ graph = <<>>
    /\ walk = <<>>
    /\ resolution = <<>>
    /\ AgentInit
    /\ NoCollaborators
    /\ inference = <<>>
    /\ ordered = <<>>
    /\ returned = <<>>
    /\ transaction = <<>>
    /\ threads = <<>>
    /\ \E max_retries \in 0..MaxRetries, initial_backoff \in 1..MaxBackoff :
          retry = <<RetryFrame(max_retries, initial_backoff)>>

\* TryOperation_of that waits after every caught failure, the last included
TryOperation_of_always_waits(f, did) ==
    LET tried == [f EXCEPT !.events = Append(@, Attempted(did))]
    IN CASE did = "ok" ->
              [tried EXCEPT !.result = <<"returned", did>>, !.at = "done"]
         [] did \in Caught ->
              [tried EXCEPT !.last_exception = <<did>>, !.at = "sleep"]
         [] OTHER ->
              [tried EXCEPT !.result = <<"raised", did>>, !.at = "done"]

\* the frame after the next iteration ran operation(), up to the sleep
TryOperation_of(f, did) ==
    LET tried == [f EXCEPT !.events = Append(@, Attempted(did))]
    IN CASE did = "ok" ->
              [tried EXCEPT !.result = <<"returned", did>>, !.at = "done"]
         [] did \in Caught ->
              IF f.attempt < f.max_retries - 1
              THEN [tried EXCEPT !.last_exception = <<did>>, !.at = "sleep"]
              ELSE [tried EXCEPT !.last_exception = <<did>>, !.attempt = @ + 1]
         [] OTHER ->
              [tried EXCEPT !.result = <<"raised", did>>, !.at = "done"]

\* for attempt in range(self.max_retries): try: return operation() except ...
TryOperation ==
    /\ retry[1].at = "try"
    /\ retry[1].attempt < retry[1].max_retries
    /\ \E did \in {"ok"} \cup Raisable :
          retry' = <<TryOperation_of(retry[1], did)>>
    /\ UNCHANGED <<walk, graph, resolution, _ltm_store, ltm_file, call_vars,
                   request_vars, collaborator_vars, inference, ordered,
                   returned, transaction, threads>>

\* backoff_time = self.initial_backoff * (2 ** attempt); time.sleep(backoff_time)
Sleep ==
    /\ retry[1].at = "sleep"
    /\ retry' = <<[retry[1] EXCEPT
                     !.events = Append(@, Slept(retry[1].initial_backoff
                                                  * Pow2(retry[1].attempt))),
                     !.attempt = @ + 1,
                     !.at = "try"]>>
    /\ UNCHANGED <<walk, graph, resolution, _ltm_store, ltm_file, call_vars,
                   request_vars, collaborator_vars, inference, ordered,
                   returned, transaction, threads>>

\* raise last_exception, after the loop; raise None is a TypeError
RaiseLast ==
    /\ retry[1].at = "try"
    /\ retry[1].attempt >= retry[1].max_retries
    /\ retry' = <<[retry[1] EXCEPT
                     !.result = IF retry[1].last_exception = <<>>
                                THEN <<"raised", "TypeError">>
                                ELSE <<"raised", retry[1].last_exception[1]>>,
                     !.at = "done"]>>
    /\ UNCHANGED <<walk, graph, resolution, _ltm_store, ltm_file, call_vars,
                   request_vars, collaborator_vars, inference, ordered,
                   returned, transaction, threads>>

NextRetry == TryOperation \/ Sleep \/ RaiseLast

SpecRetry == InitRetry /\ [][NextRetry]_vars

(* ------------- specification of update_tasks_batch --------------------- *)
\* the updates a batch can hold: without an id, for a stored task or for a
\* task the store may not have, with a position in the order
BatchUpdates ==
    {[id |-> id, depends_on |-> <<>>, execution_order |-> idx, status |-> "ready"] :
        id \in {NoId} \cup 1..(MaxStored + 1), idx \in 1..MaxStored}

\* a store with some tasks and a batch of updates for it
InitStore ==
    /\ graph = <<>>
    /\ walk = <<>>
    /\ resolution = <<>>
    /\ AgentInit
    /\ openrouter_client = <<>>
    /\ calls = <<>>
    /\ inference = <<>>
    /\ ordered = <<>>
    /\ returned = <<>>
    /\ retry = <<>>
    /\ threads = <<>>
    /\ \E collection \in Collections : db_client = <<collection>>
    /\ \E task_updates \in SeqsUpTo(BatchUpdates, MaxStored) :
          transaction = <<[task_updates |-> task_updates,
                           before |-> db_client[1],
                           fault |-> "none",
                           did |-> <<>>]>>

\* one call self.db_client.update_tasks_batch(task_updates)
UpdateTasksBatch ==
    /\ transaction[1].did = <<>>
    /\ \E fault \in {"none", "update_tasks_batch"} :
         \E u \in {update_tasks_batch(db_client[1], transaction[1].task_updates, fault)} :
            /\ db_client' = <<u.collection>>
            /\ transaction' = <<[transaction[1] EXCEPT !.fault = fault,
                                                       !.did = <<u.did>>]>>
    /\ UNCHANGED <<walk, graph, resolution, _ltm_store, ltm_file, call_vars,
                   request_vars, openrouter_client, calls, inference, ordered,
                   returned, retry, threads>>

NextStore == UpdateTasksBatch

SpecStore == InitStore /\ [][NextStore]_vars

(* ------- specification of requests served at the same time ------------- *)
\* the frame of process_task in a thread that is about to run it
ThreadFrame(tasks) ==
    [tasks |-> tasks, at |-> "lookup", key |-> <<>>, result |-> <<>>,
     payload |-> <<>>]

\* handle_task runs in the thread pool of the server, every request on the
\* one agent of the module: up to MaxThreads requests are under way
InitConcurrent ==
    /\ graph = <<>>
    /\ walk = <<>>
    /\ resolution = <<>>
    /\ AgentInit
    /\ NoCollaborators
    /\ inference = <<>>
    /\ ordered = <<>>
    /\ returned = <<>>
    /\ retry = <<>>
    /\ transaction = <<>>
    /\ \E n \in 1..MaxThreads :
          \E lists \in [1..n -> TaskLists] :
             threads = [t \in 1..n |-> ThreadFrame(lists[t])]

\* thread t runs process_task up to "if cached:", returns on a hit and
\* resolves its own graph on a miss
Lookup(t) ==
    /\ threads[t].at = "lookup"
    /\ LET dag == BuildDag(threads[t].tasks)
           task_key == CanonicalKey(dag)
           cached == read_from_ltm(_ltm_store, task_key)
       IN IF Truthy(cached)
          THEN threads' = [threads EXCEPT ![t].key = <<task_key>>,
                                          ![t].payload = <<HitPayload(cached[1])>>,
                                          ![t].at = "done"]
          ELSE \E cycle_list \in CycleListOrders(dag) :
                 threads' = [threads EXCEPT
                               ![t].key = <<task_key>>,
                               ![t].result = <<FreshResult(dag,
                                                 _resolve_dependencies(dag, cycle_list))>>,
                               ![t].at = "write"]
    /\ UNCHANGED <<walk, graph, resolution, _ltm_store, ltm_file, call_vars,
                   request_vars, collaborator_vars, inference, ordered,
                   returned, retry, transaction>>

\* thread t runs self._ltm_store[key] = value of write_to_ltm
Write(t) ==
    /\ threads[t].at = "write"
    /\ _ltm_store' = StoreSet(_ltm_store, threads[t].key[1], threads[t].result[1])
    /\ threads' = [threads EXCEPT ![t].at = "save"]
    /\ UNCHANGED <<walk, graph, resolution, ltm_file, call_vars,
                   request_vars, collaborator_vars, inference, ordered,
                   returned, retry, transaction>>

\* thread t runs self._save_ltm() on the store as it is now, whatever the
\* end of the write (an exception is swallowed), and returns its result
SaveAndReturn(t) ==
    /\ threads[t].at = "save"
    /\ \E outcome \in SaveOutcomes :
          ltm_file' = _save_ltm(_ltm_store, ltm_file, outcome)
    /\ threads' = [threads EXCEPT ![t].payload = threads[t].result,
                                  ![t].at = "done"]
    /\ UNCHANGED <<walk, graph, resolution, _ltm_store, call_vars,
                   request_vars, collaborator_vars, inference, ordered,
                   returned, retry, transaction>>

NextConcurrent ==
    \/ \E t \in DOMAIN threads : Lookup(t)
    \/ \E t \in DOMAIN threads : Write(t)
    \/ \E t \in DOMAIN threads : SaveAndReturn(t)

SpecConcurrent == InitConcurrent /\ [][NextConcurrent]_vars

(* ------- specification of a resolver call, statement by statement ------ *)
\* the graphs resolved step by step: up to MaxWalk tasks in any declaration
\* order, up to MaxWalk depends_on entries in all, one id more than tasks
WalkKeyOrders ==
    {ks \in SeqsUpTo(1..MaxWalk, MaxWalk) :
        \A i, j \in 1..Len(ks) : i # j => ks[i] # ks[j]}
WalkLens(k) == {ls \in [1..k -> 0..MaxWalk] : SumTo(ls, k) <= MaxWalk}

\* the activation of dfs(node): i = 0 before its first statement, then the
\* position in "for dep in dag.get(node, [])" of the entry to look at next
Activation(node, i) == [node |-> node, i |-> i]

\* the locals of _resolve_dependencies when the call begins: next is the
\* position of "for node in dag", frames the activations of dfs, innermost
\* last, sort the locals of the ordering loop once it has begun
InitWalk ==
    /\ \E ks \in WalkKeyOrders :
         \E ls \in WalkLens(Len(ks)) :
           \E flat \in [1..SumTo(ls, Len(ks)) -> 1..(MaxWalk + 1)] :
             graph = MakeDag(ks, ls, flat)
    /\ resolution = <<>>
    /\ AgentInit
    /\ NoCollaborators
    /\ inference = <<>>
    /\ ordered = <<>>
    /\ returned = <<>>
    /\ retry = <<>>
    /\ transaction = <<>>
    /\ threads = <<>>
    /\ walk = <<[at |-> "dfs", next |-> 1, frames |-> <<>>,
                 visited |-> {}, stack |-> <<>>, cycles |-> <<>>,
                 sort |-> <<>>]>>

\* for node in dag: if not visited.get(node, False): dfs(node)
ForNode ==
    /\ walk[1].at = "dfs" /\ walk[1].frames = <<>>
    /\ walk[1].next <= Len(graph)
    /\ LET node == graph[walk[1].next][1]
       IN walk' = <<[walk[1] EXCEPT
                       !.next = @ + 1,
                       !.frames = IF node \in walk[1].visited THEN <<>>
                                  ELSE <<Activation(node, 0)>>]>>
    /\ UNCHANGED <<graph, resolution, _ltm_store, ltm_file, call_vars,
                   request_vars, collaborator_vars, inference, ordered,
                   returned, retry, transaction, threads>>

\* the innermost dfs(node) runs up to its for loop: it records a cycle and
\* returns, returns on a visited node, or marks the node and pushes it
EnterDfs ==
    /\ walk[1].at = "dfs" /\ walk[1].frames # <<>>
    /\ LET f == walk[1]
           depth == Len(f.frames)
           node == f.frames[depth].node
           back == SubSeq(f.frames, 1, depth - 1)
       IN /\ f.frames[depth].i = 0
          /\ walk' = <<IF node \in Range(f.stack)
                        THEN [f EXCEPT !.cycles =
                                 Append(@, SubSeq(f.stack, IndexOf(f.stack, node),
                                                  Len(f.stack)) \o <<node>>),
                                       !.frames = back]
                        ELSE IF node \in f.visited
                        THEN [f EXCEPT !.frames = back]
                        ELSE [f EXCEPT !.visited = @ \cup {node},
                                       !.stack = Append(@, node),
                                       !.frames[depth].i = 1]>>
    /\ UNCHANGED <<graph, resolution, _ltm_store, ltm_file, call_vars,
                   request_vars, collaborator_vars, inference, ordered,
                   returned, retry, transaction, threads>>

\* for dep in dag.get(node, []): if dep in dag: dfs(dep); after the last
\* entry stack.pop() and the return
ForDep ==
    /\ walk[1].at = "dfs" /\ walk[1].frames # <<>>
    /\ LET f == walk[1]
           depth == Len(f.frames)
           deps == DictGet(graph, f.frames[depth].node, <<>>)
           i == f.frames[depth].i
       IN /\ i >= 1
          /\ walk' = <<IF i > Len(deps)
                        THEN [f EXCEPT !.stack = SubSeq(@, 1, Len(@) - 1),
                                       !.frames = SubSeq(@, 1, depth - 1)]
                        ELSE IF deps[i] \in Keys(graph)
                        THEN [f EXCEPT !.frames =
                                 Append([@ EXCEPT ![depth].i = i + 1],
                                        Activation(deps[i], 0))]
                        ELSE [f EXCEPT !.frames[depth].i = i + 1]>>
    /\ UNCHANGED <<graph, resolution, _ltm_store, ltm_file, call_vars,
                   request_vars, collaborator_vars, inference, ordered,
                   returned, retry, transaction, threads>>

\* the statements between the two loops: indegree, cycle_nodes, queue
StartSort ==
    /\ walk[1].at = "dfs" /\ walk[1].frames = <<>>
    /\ walk[1].next > Len(graph)
    /\ LET indegree == CountIndegree(graph, 1, 1, NoIndegree)
           cycle_nodes == CycleNodes(walk[1].cycles)
           Seed(n) == IndegreeAt(indegree, n) = 0 /\ n \notin cycle_nodes
       IN walk' = <<[walk[1] EXCEPT
                       !.at = "sort",
                       !.sort = <<[indegree |-> indegree,
                                   queue |-> SelectSeq(KeySeq(graph), Seed),
                                   processed |-> {},
                                   order |-> <<>>]>>]>>
    /\ UNCHANGED <<graph, resolution, _ltm_store, ltm_file, call_vars,
                   request_vars, collaborator_vars, inference, ordered,
                   returned, retry, transaction, threads>>

\* KahnIteration that reads queue[0] and leaves it in the queue
KahnIteration_no_popleft(dag, cycle_nodes, st) ==
    LET node == Head(st.queue)
        read == [st EXCEPT !.order = IF node \in st.processed THEN @
                                     ELSE Append(@, node),
                           !.processed = @ \cup {node}]
    IN IF node \in st.processed THEN read
       ELSE [Relax(dag, cycle_nodes, node, 1, read) EXCEPT !.queue = st.queue]

\* one turn of "while queue:", the locals of the loop before and after
KahnIteration(dag, cycle_nodes, st) ==
    LET node == Head(st.queue)
        popped == [st EXCEPT !.queue = Tail(@),
                             !.order = Append(@, node),
                             !.processed = @ \cup {node}]
    IN Relax(dag, cycle_nodes, node, 1, popped)

\* while queue: node = queue.popleft(); ...
KahnStep ==
    /\ walk[1].at = "sort" /\ walk[1].sort[1].queue # <<>>
    /\ walk' = <<[walk[1] EXCEPT !.sort =
                     <<KahnIteration(graph, CycleNodes(walk[1].cycles),
                                     walk[1].sort[1])>>]>>
    /\ UNCHANGED <<graph, resolution, _ltm_store, ltm_file, call_vars,
                   request_vars, collaborator_vars, inference, ordered,
                   returned, retry, transaction, threads>>

\* the statements after the loop, and the return
Finish ==
    /\ walk[1].at = "sort" /\ walk[1].sort[1].queue = <<>>
    /\ LET cycle_nodes == CycleNodes(walk[1].cycles)
           order == walk[1].sort[1].order
       IN \E cycle_list \in SetOrders(cycle_nodes) :
             resolution' = <<[order |-> order,
                              blocked |-> BlockedTasks(graph, order, cycle_nodes,
                                                       cycle_list),
                              cycles |-> NormalizedCycles(walk[1].cycles)]>>
    /\ walk' = <<[walk[1] EXCEPT !.at = "done"]>>
    /\ UNCHANGED <<graph, _ltm_store, ltm_file, call_vars,
                   request_vars, collaborator_vars, inference, ordered,
                   returned, retry, transaction, threads>>

NextWalk == ForNode \/ EnterDfs \/ ForDep \/ StartSort \/ KahnStep \/ Finish

\* the interpreter runs the next statement as long as there is one
SpecWalk == InitWalk /\ [][NextWalk]_vars /\ WF_vars(NextWalk)

(* ---------------- graph notions used to state the properties ----------- *)
\* the dependencies of task n that are tasks of the graph d
Succs(d, n) == Range(DictGet(d, n, <<>>)) \cap Keys(d)

\* the least set that contains S and the dependencies of its members
RECURSIVE Closure(_, _)
Closure(d, S) ==
    LET T == S \cup UNION {Succs(d, n) : n \in S}
    IN IF T = S THEN S ELSE Closure(d, T)

\* the tasks n depends on, directly or transitively
ReachPlus(d, n) == Closure(d, Succs(d, n))

OnCycle(d, n) == n \in ReachPlus(d, n)
HasCycle(d) == \E n \in Keys(d) : OnCycle(d, n)
HasDangling(d, n) == \E dep \in Range(DictAt(d, n)) : dep \notin Keys(d)
HasRepeatedDep(d, n) ==
    Len(DictAt(d, n)) # Cardinality(Range(DictAt(d, n)))

Resolved == resolution # <<>>
Out == resolution[1]
IsList(xs, S) == Range(xs) = S /\ Len(xs) = Cardinality(S)

(* ------------------------------ C1 ------------------------------------- *)
\* C1: every task id of the graph occurs exactly once across execution_order
\* and blocked_tasks: the two are disjoint, neither repeats an id, and their
\* union is exactly the set of graph keys.
C1_Partition ==
    Resolved =>
        /\ Range(Out.order) \cap Range(Out.blocked) = {}
        /\ Range(Out.order) \cup Range(Out.blocked) = Keys(graph)
        /\ Len(Out.order) = Cardinality(Range(Out.order))
        /\ Len(Out.blocked) = Cardinality(Range(Out.blocked))

\* a resolved graph with scheduled tasks, a cycle and a stuck non-cycle task
C1_Witness ==
    /\ Resolved
    /\ Out.order # <<>>
    /\ Out.cycles # <<>>
    /\ \E n \in Range(Out.blocked) : ~OnCycle(graph, n)

(* ------------------------------ C2 ------------------------------------- *)
\* C2: for an acyclic graph, every task in execution_order is preceded in
\* execution_order by every dependency it declares.
C2_TopologicalOrder ==
    (Resolved /\ ~HasCycle(graph)) =>
        \A i \in 1..Len(Out.order) :
            \A dep \in Range(DictAt(graph, Out.order[i])) :
                \E j \in 1..(i - 1) : Out.order[j] = dep

\* an acyclic graph whose order has three tasks, the last declared first
C2_Witness ==
    /\ Resolved
    /\ ~HasCycle(graph)
    /\ Len(Out.order) = 3
    /\ Out.order[3] = graph[1][1]
    /\ Len(graph[1][2]) = 2

(* ------------------------------ C3 ------------------------------------- *)
\* C3: every task on a cycle, and every task that depends directly or
\* transitively on a task on a cycle, is in blocked_tasks and not in
\* execution_order.
C3_CycleBlocks ==
    Resolved =>
        \A n \in Keys(graph) :
            (OnCycle(graph, n) \/ \E m \in ReachPlus(graph, n) : OnCycle(graph, m))
                => (n \in Range(Out.blocked) /\ n \notin Range(Out.order))

\* a task off every cycle that reaches a cycle only through another task
C3_Witness ==
    /\ Resolved
    /\ \E n \in Keys(graph) :
        /\ ~OnCycle(graph, n)
        /\ \A m \in Succs(graph, n) : ~OnCycle(graph, m)
        /\ \E m \in ReachPlus(graph, n) : OnCycle(graph, m)
        /\ n \in Range(Out.blocked)

(* ------------------------------ C4 ------------------------------------- *)
\* C4: cycles_detected is non-empty exactly when the graph restricted to its
\* own tasks has a directed cycle (a self-dependency included); a task reached
\* a second time after it was fully visited records no cycle.
C4_CyclesIffCyclic ==
    Resolved => ((Out.cycles # <<>>) <=> HasCycle(graph))

\* an acyclic graph in which a task is reached along two different paths
C4_Witness ==
    /\ Resolved
    /\ ~HasCycle(graph)
    /\ Out.cycles = <<>>
    /\ \E a, b, c \in Keys(graph) :
        /\ b \in Succs(graph, a)
        /\ c \in Succs(graph, a)
        /\ c \in Succs(graph, b)

(* ------------------------------ C5 ------------------------------------- *)
\* C5: every cycle in cycles_detected is a closed walk of the input graph:
\* first and last element are equal, every element is a task of the input,
\* and each element declares the next one as a dependency.
C5_ClosedWalks ==
    Resolved =>
        \A k \in 1..Len(Out.cycles) :
            LET c == Out.cycles[k]
            IN /\ Len(c) >= 2
               /\ c[1] = c[Len(c)]
               /\ \A i \in 1..Len(c) : c[i] \in Keys(graph)
               /\ \A i \in 1..(Len(c) - 1) :
                      c[i + 1] \in Range(DictAt(graph, c[i]))

\* a cycle found below the first task of the depth-first search
C5_Witness ==
    /\ Resolved
    /\ \E k \in 1..Len(Out.cycles) :
        /\ Len(Out.cycles[k]) >= 3
        /\ Out.cycles[k][1] # graph[1][1]

(* ------------------------------ C6 ------------------------------------- *)
ChainABC == <<<<1, <<>>>>, <<2, <<1>>>>, <<3, <<2>>>>>>

\* C6: an acyclic graph whose dependencies are all tasks of the input and in
\* which no task repeats a dependency has every task in execution_order
\* exactly once, blocked_tasks = [] and cycles_detected = []; the chain
\* {A: [], B: [A], C: [B]} yields [A, B, C] and a lone task yields [task].
C6_AllScheduled ==
    /\ (/\ Resolved
        /\ ~HasCycle(graph)
        /\ \A n \in Keys(graph) : ~HasDangling(graph, n) /\ ~HasRepeatedDep(graph, n))
            => /\ IsList(Out.order, Keys(graph))
               /\ Out.blocked = <<>>
               /\ Out.cycles = <<>>
    /\ (Resolved /\ graph = ChainABC) => Out.order = <<1, 2, 3>>
    /\ (Resolved /\ Len(graph) = 1 /\ graph[1][2] = <<>>) => Out.order = <<graph[1][1]>>

\* the chain of the determinism scenario, resolved
C6_Witness == Resolved /\ graph = ChainABC /\ Out.blocked = <<>>

(* ------------------------------ C7 ------------------------------------- *)
\* C7: the resolver returns a result for a graph with a dependency id that
\* names no task of the input; that id never appears in execution_order,
\* blocked_tasks or a cycle, and the task that declares it is in
\* blocked_tasks and not in execution_order.
C7_DanglingBlocked ==
    Resolved =>
        /\ \A n \in Keys(graph) :
              HasDangling(graph, n) =>
                  (n \in Range(Out.blocked) /\ n \notin Range(Out.order))
        /\ \A x \in DepIds \ Keys(graph) :
              /\ x \notin Range(Out.order) \cup Range(Out.blocked)
              /\ \A k \in 1..Len(Out.cycles) : x \notin Range(Out.cycles[k])

\* a task whose only dependency is missing, next to a task that is scheduled
C7_Witness ==
    /\ Resolved
    /\ Out.order # <<>>
    /\ \E n \in Keys(graph) :
        /\ Len(DictAt(graph, n)) = 1
        /\ HasDangling(graph, n)
        /\ n \in Range(Out.blocked)

(* ---------------- notions used to state the cache properties ----------- *)
\* the payload carries from_ltm = True
Tagged(p) == "from_ltm" \in DOMAIN p /\ p.from_ltm = TRUE

\* the two payloads agree on the four result fields
SameResult(p, q) ==
    /\ p.execution_order = q.execution_order
    /\ p.blocked_tasks = q.blocked_tasks
    /\ p.cycles_detected = q.cycles_detected
    /\ DictEq(p.raw_graph, q.raw_graph)

\* the payload is what the resolver computes for the task list
IsFreshFor(p, tasks) ==
    LET g == BuildDag(tasks)
    IN \E cycle_list \in CycleListOrders(g) :
           p = FreshResult(g, _resolve_dependencies(g, cycle_list))

\* this step is a process_task call
IsCall == ncalls' = ncalls + 1

\* this step is a process_task call with the task list of the call before it
\* on the same agent
IsRepeatedCall == IsCall /\ last # <<>> /\ last'[1].tasks = last[1].tasks

(* ------------------------------ C8 ------------------------------------- *)
\* C8 as stated: when the first two calls on an agent have the same task
\* list, both return the same four result fields, the first result is not
\* tagged from_ltm and the second is.
C8_AsStated ==
    [][(IsRepeatedCall /\ last[1].first_call) =>
          /\ SameResult(last[1].payload, last'[1].payload)
          /\ ~Tagged(last[1].payload)
          /\ Tagged(last'[1].payload)]_vars

\* C8 (amended): of two calls in a row with the same task list, both return
\* the same execution_order, blocked_tasks, cycles_detected and raw_graph and
\* the second is served from the cache and tagged from_ltm = True; the first
\* is untagged exactly when the canonical key of its graph was not in the
\* cache when it was made.
C8_Idempotent ==
    [][IsRepeatedCall =>
          /\ SameResult(last[1].payload, last'[1].payload)
          /\ Tagged(last[1].payload) <=> last[1].present
          /\ Tagged(last'[1].payload)
          /\ ~last'[1].ran_resolver]_vars

\* the second of two equal calls on a fresh agent, answered from the cache
C8_Witness ==
    /\ last # <<>>
    /\ ncalls = 2
    /\ last[1].repeated
    /\ Tagged(last[1].payload)
    /\ Len(last[1].payload.execution_order) = 2

(* ------------------------------ C9 ------------------------------------- *)
\* C9: a process_task call runs the resolver and writes its result to the
\* cache exactly when the canonical key of its graph is not yet in the cache,
\* and the fresh payload is untagged; when the key is in the cache the
\* resolver is not run, nothing is written, and the stored result is
\* returned tagged from_ltm = True.
C9_CacheDecides ==
    [][IsCall =>
          LET c == last'[1]
              k == CanonicalKey(BuildDag(c.tasks))
          IN IF k \in DOMAIN _ltm_store
             THEN /\ ~c.ran_resolver
                  /\ c.wrote = <<>>
                  /\ _ltm_store' = _ltm_store
                  /\ ltm_file' = ltm_file
                  /\ Tagged(c.payload)
                  /\ DOMAIN c.payload = DOMAIN _ltm_store[k] \cup {"from_ltm"}
                  /\ \A f \in DOMAIN _ltm_store[k] : c.payload[f] = _ltm_store[k][f]
             ELSE /\ c.ran_resolver
                  /\ c.wrote # <<>>
                  /\ DOMAIN _ltm_store' = DOMAIN _ltm_store \cup {k}
                  /\ _ltm_store'[k] = c.payload
                  /\ \A j \in DOMAIN _ltm_store : _ltm_store'[j] = _ltm_store[j]
                  /\ ~Tagged(c.payload)
                  /\ IsFreshFor(c.payload, c.tasks)]_vars

\* a hit on a key that another task list stored, with nothing to schedule
C9_Witness ==
    /\ last # <<>>
    /\ last[1].present
    /\ ~last[1].repeated
    /\ ~last[1].ran_resolver
    /\ Tagged(last[1].payload)
    /\ last[1].payload.execution_order = <<>>

(* ------------------------------ C10 ------------------------------------ *)
\* C10: when the cache file cannot be written, write_to_ltm still updates the
\* in-memory mapping and returns True, process_task still returns the freshly
\* computed result, and every later lookup of that key on the same agent is
\* a hit.
C10_SaveFailureHarmless ==
    /\ \A k \in unsaved :
          k \in DOMAIN _ltm_store /\ Truthy(read_from_ltm(_ltm_store, k))
    /\ (last # <<>> /\ last[1].save_failed) =>
          /\ last[1].wrote = <<TRUE>>
          /\ ~Tagged(last[1].payload)
          /\ IsFreshFor(last[1].payload, last[1].tasks)
          /\ read_from_ltm(_ltm_store, last[1].key) = <<last[1].payload>>

\* a later call answered from an entry that never reached the file
C10_Witness ==
    /\ last # <<>>
    /\ last[1].key \in unsaved
    /\ ~last[1].save_failed
    /\ Tagged(last[1].payload)
    /\ ltm_file.state # "ok"

(* ------------- notions used to state the handshake properties ---------- *)
\* a request has been handled, and what it was
Replied == reply # <<>>
Req == reply[1].request
Responded == Replied /\ reply[1].response # <<>>
Resp == reply[1].response[1]
ErrorType == Resp.error[1].type
ErrorMessage == Resp.error[1].message

\* the fields of the request as the handler reads them
NameOf(req) == GetOr(req.agent_name, "")
IntentOf(req) == GetOr(req.intent, "")
InputDict(req) ==
    LET given == GetOr(req.input, Obj(<<>>))
    IN IF Falsy(given) THEN Obj(<<>>) ELSE given

\* the value at a path of keys, PyNone where the path leaves the dicts
RECURSIVE AtPath(_, _)
AtPath(x, path) ==
    IF path = <<>> THEN x
    ELSE IF Kind(x) = "dict" /\ Head(path) \in Keys(Val(x))
    THEN AtPath(DictAt(Val(x), Head(path)), Tail(path))
    ELSE PyNone

\* the value input.text encodes, PyNone when it is no string or no JSON
TextValue(inp) ==
    LET t == AtPath(inp, <<"text">>)
    IN IF Kind(t) = "str" /\ Val(t).syntax = "ok" THEN Val(t).value ELSE PyNone

\* the three locations of the task list, in the order of the claim
Locations(inp) ==
    <<AtPath(inp, <<"tasks">>),
      AtPath(inp, <<"metadata", "extra", "tasks">>),
      IF Kind(AtPath(TextValue(inp), <<"tasks">>)) = "list"
      THEN AtPath(TextValue(inp), <<"tasks">>) ELSE TextValue(inp)>>

\* the list of the first location that holds one: <<>> when none does
FirstList(inp) ==
    LET locs == Locations(inp)
        holds == {i \in 1..3 : Kind(locs[i]) = "list"}
    IN IF holds = {} THEN <<>>
       ELSE <<Val(locs[CHOOSE i \in holds : \A j \in holds : i <= j])>>

\* the request passed the identity and the intent check
Admitted(req) == NameOf(req) = AgentId /\ IntentOf(req) = OwnIntent

\* an entry that structural validation has to reject
Offends(e) ==
    \/ Kind(e) # "dict"
    \/ "id" \notin Keys(Val(e))
    \/ /\ "depends_on" \in Keys(Val(e))
       /\ Kind(DictAt(Val(e), "depends_on")) \notin {"none", "list"}

\* the message for the offending entry at (0-based) index idx
OffenceMessage(e, idx) ==
    IF Kind(e) # "dict"
    THEN "Task entry at index " \o ToString(idx) \o " must be an object."
    ELSE IF "id" \notin Keys(Val(e))
    THEN "Task entry at index " \o ToString(idx) \o " is missing required field 'id'."
    ELSE "Task '" \o ToString(Val(DictAt(Val(e), "id"))) \o "' depends_on must be a list."

\* the entry with depends_on = [] in place of an absent or null depends_on
WithEmptyDeps(e) ==
    IF "depends_on" \in Keys(Val(e)) /\ Kind(DictAt(Val(e), "depends_on")) = "list"
    THEN [id |-> Val(DictAt(Val(e), "id")),
          depends_on |-> [i \in 1..Len(Val(DictAt(Val(e), "depends_on"))) |->
                             Val(Val(DictAt(Val(e), "depends_on"))[i])]]
    ELSE [id |-> Val(DictAt(Val(e), "id")), depends_on |-> <<>>]

\* an entry whose depends_on is absent or null
LacksDeps(e) ==
    \/ "depends_on" \notin Keys(Val(e))
    \/ Kind(DictAt(Val(e), "depends_on")) = "none"

\* this step is a handle_supervisor_request call
IsRequest == nrequests' = nrequests + 1

(* ------------------------------ C11 ------------------------------------ *)
\* C11: a request whose agent_name differs from the agent's own id is
\* answered with status "error" and error.type "invalid_agent", whatever its
\* intent and input are.
C11_InvalidAgent ==
    (Replied /\ NameOf(Req) # AgentId) =>
        /\ Responded
        /\ Resp.status = "error"
        /\ ErrorType = "invalid_agent"
        /\ ~reply[1].called_process_task

\* a wrong agent name with an unsupported intent and an empty task list
C11_Witness ==
    /\ Responded
    /\ Req.agent_name = <<"wrong">>
    /\ IntentOf(Req) # OwnIntent
    /\ FirstList(InputDict(Req)) = <<<<>>>>
    /\ ErrorType = "invalid_agent"

(* ------------------------------ C12 ------------------------------------ *)
\* C12: the checks run in the order identity, intent, extraction,
\* validation, resolution: with the agent's own name, an intent other than
\* "task.resolve_dependencies" is answered with "unsupported_intent"
\* whatever the input is; "invalid_input" is reported only when the identity
\* and the intent check passed; process_task is called only for a task list
\* that was extracted and passed validation.
C12_CheckOrder ==
    Replied =>
        /\ (NameOf(Req) = AgentId /\ IntentOf(Req) # OwnIntent) =>
              (Responded /\ Resp.status = "error" /\ ErrorType = "unsupported_intent")
        /\ (Responded /\ Resp.status = "error" /\ ErrorType = "invalid_input") =>
              Admitted(Req)
        /\ reply[1].called_process_task =>
              /\ Admitted(Req)
              /\ FirstList(InputDict(Req)) # <<>>
              /\ FirstList(InputDict(Req))[1] # <<>>
              /\ \A i \in 1..Len(FirstList(InputDict(Req))[1]) :
                     ~Offends(FirstList(InputDict(Req))[1][i])

\* an unsupported intent on a request whose input is no dict at all
C12_Witness ==
    /\ Responded
    /\ NameOf(Req) = AgentId
    /\ Req.intent = <<"task.schedule">>
    /\ Req.input = <<NotJson>>
    /\ ErrorType = "unsupported_intent"

(* ------------------------------ C13 ------------------------------------ *)
\* C13: for a request that passed the identity and the intent check, the
\* task list is the list at the first of input.tasks,
\* input.metadata.extra.tasks and input.text (JSON: an object with a tasks
\* list, or a bare list) that holds one: that list is validated and
\* resolved; when none holds a list the response is "invalid_input" with
\* the message that names the three shapes.
C13_FirstLocationWins ==
    (Replied /\ Admitted(Req)) =>
        LET first == FirstList(InputDict(Req))
        IN IF first = <<>>
           THEN Responded /\ Resp.status = "error"
                /\ ErrorType = "invalid_input" /\ ErrorMessage = NoShapeMessage
           ELSE /\ Responded
                /\ _extract_tasks(InputDict(Req)) = Found(first[1])
                /\ (Resp.status = "error" /\ ErrorType = "invalid_input") =>
                       ErrorMessage = _validate_tasks(first[1])[1]
                /\ Resp.status = "success" =>
                       DictEq(Resp.output[1].result.raw_graph,
                              BuildDag(TaskRecords(first[1])))

(* ------------------------------ C14 ------------------------------------ *)
\* C14: an extracted task list that is empty, or has an entry that is not an
\* object, has no id, or has a depends_on that is present, not null and not
\* a list, is answered with "invalid_input"; the message is that of the
\* offending entry with the lowest index, and process_task is not called.
C14_ValidationRejects ==
    (Replied /\ Admitted(Req) /\ reply[1].raised = <<>>
        /\ FirstList(InputDict(Req)) # <<>>) =>
        LET tasks == FirstList(InputDict(Req))[1]
            bad == {i \in 1..Len(tasks) : Offends(tasks[i])}
        IN (tasks = <<>> \/ bad # {}) =>
              /\ Resp.status = "error"
              /\ ErrorType = "invalid_input"
              /\ ~reply[1].called_process_task
              /\ IF tasks = <<>>
                 THEN ErrorMessage = "Task list must be a non-empty list."
                 ELSE LET i == CHOOSE i \in bad : \A j \in bad : i <= j
                      IN ErrorMessage = OffenceMessage(tasks[i], i - 1)

\* two offending entries of different kinds: the first one is reported
C14_Witness ==
    /\ Responded
    /\ Admitted(Req)
    /\ FirstList(InputDict(Req)) = <<<<EntryNoId, EntryNotObject>>>>
    /\ ErrorMessage = "Task entry at index 0 is missing required field 'id'."

(* ------------------------------ C15 ------------------------------------ *)
\* C15: a request whose task list passes validation and has a task with an
\* absent or null depends_on is answered with status "success", and its
\* result is the one of the same list with depends_on = [] for that task.
C15_NullIsEmpty ==
    (Replied /\ Admitted(Req) /\ reply[1].raised = <<>>
        /\ FirstList(InputDict(Req)) # <<>>) =>
        LET tasks == FirstList(InputDict(Req))[1]
        IN (/\ tasks # <<>>
            /\ \A i \in 1..Len(tasks) : ~Offends(tasks[i])
            /\ \E i \in 1..Len(tasks) : LacksDeps(tasks[i])) =>
              /\ Resp.status = "success"
              /\ DictEq(Resp.output[1].result.raw_graph,
                        BuildDag([i \in 1..Len(tasks) |-> WithEmptyDeps(tasks[i])]))

(* ------------------------------ C16 ------------------------------------ *)
\* C16: every call of handle_supervisor_request returns a response
\* envelope, no exception leaves it; when process_task was called the
\* response is a success or an error of type "runtime_error".
C16_NeverRaises ==
    Replied =>
        /\ reply[1].raised = <<>>
        /\ Responded
        /\ reply[1].called_process_task =>
              (Resp.status = "success" \/ ErrorType = "runtime_error")

(* ------------------------------ C17 ------------------------------------ *)
\* C17: in every response envelope status is "success" or "error"; it is
\* "success" exactly when error is null and output is an object with
\* result, confidence = 0.92 and details; it is "error" exactly when output
\* is null and error is an object with a message and a type among
\* invalid_agent, unsupported_intent, invalid_input and runtime_error.
C17_EnvelopeShape ==
    Responded =>
        LET IsSuccessShape ==
                /\ Resp.error = <<>>
                /\ Resp.output # <<>>
                /\ DOMAIN Resp.output[1] = {"result", "confidence", "details"}
                /\ Resp.output[1].confidence = 92
            IsErrorShape ==
                /\ Resp.output = <<>>
                /\ Resp.error # <<>>
                /\ DOMAIN Resp.error[1] = {"type", "message"}
                /\ Resp.error[1].type \in {"invalid_agent", "unsupported_intent",
                                           "invalid_input", "runtime_error"}
        IN /\ DOMAIN Resp = {"request_id", "agent_name", "status", "output", "error"}
           /\ Resp.status \in {"success", "error"}
           /\ (Resp.status = "success") <=> IsSuccessShape
           /\ (Resp.status = "error") <=> IsErrorShape

\* a success envelope around a cached result
C17_Witness ==
    /\ Responded
    /\ Resp.status = "success"
    /\ Tagged(Resp.output[1].result)
    /\ Resp.error = <<>>

(* ------------------------------ C18 ------------------------------------ *)
\* C18 as stated: every response carries a request_id; it is the request's
\* request_id when the request supplies one, and otherwise an identifier
\* that was not generated for any earlier request.
C18_AsStated ==
    [][(IsRequest /\ reply'[1].response # <<>>) =>
          LET id == reply'[1].response[1].request_id
              supplied == reply'[1].request.request_id
          IN IF supplied # <<>>
             THEN id = supplied[1]
             ELSE id \notin issued /\ id \in issued']_vars

\* C18 (amended): every response carries a request_id; it is the request's
\* request_id when the request supplies a non-empty one, and otherwise (no
\* request_id, or an empty one) an identifier that was not generated for any
\* earlier request.
C18_RequestId ==
    [][(IsRequest /\ reply'[1].response # <<>>) =>
          LET id == reply'[1].response[1].request_id
              supplied == reply'[1].request.request_id
          IN IF supplied # <<>> /\ supplied[1] # ""
             THEN id = supplied[1] /\ issued' = issued
             ELSE id \notin issued /\ id \in issued' /\ id # ""]_vars

\* the second generated identifier, on an error response
C18_Witness ==
    /\ Responded
    /\ Cardinality(issued) = 2
    /\ reply[1].used_uuid
    /\ Req.request_id = <<"">>
    /\ Resp.status = "error"
    /\ Resp.request_id \in issued

(* ------------- notions used to state the store properties -------------- *)
\* the request takes the store-triggered path
Triggers(req) ==
    /\ Admitted(req)
    /\ Kind(InputDict(req)) = "dict"
    /\ AtPath(InputDict(req), <<"trigger">>) = Word("database_update")

\* the place of a collaborator in the workflow
Rank(name) ==
    CASE name = "get_all_tasks" -> 1
      [] name = "infer_dependencies" -> 2
      [] name = "update_tasks_batch" -> 3

\* the collaborators that were called in a log, and those whose call failed
Called(log) == {CallName(log[i]) : i \in 1..Len(log)}
FailedCalls(log) == {CallName(log[i]) : i \in {j \in 1..Len(log) : CallFailed(log[j])}}

\* the message that reports the failure of a collaborator call
FailureMessage(c) ==
    CASE CallName(c) = "get_all_tasks" ->
            "Failed to retrieve tasks from database: " \o CallError(c)
      [] CallName(c) = "infer_dependencies" ->
            "Failed to infer dependencies: " \o CallError(c)
      [] CallName(c) = "update_tasks_batch" ->
            "Failed to update tasks in database: " \o CallError(c)

\* the store client holds a store without tasks
EmptyStoreClient == <<<<>>>>

(* ------------------------------ C19 ------------------------------------ *)
\* C19: in a request on the store-triggered path the collaborators are
\* called in the order get_all_tasks, infer_dependencies,
\* update_tasks_batch, each at most once; a collaborator that fails makes
\* the response an error of type runtime_error whose message reports that
\* failure; and when retrieval or inference fails update_tasks_batch is not
\* called and the store is as it was.
C19_StoreWorkflow ==
    [][IsRequest /\ Triggers(reply'[1].request) =>
          /\ \A i, j \in 1..Len(calls') :
                i < j => Rank(CallName(calls'[i])) < Rank(CallName(calls'[j]))
          /\ \A i \in 1..Len(calls') : CallFailed(calls'[i]) =>
                /\ reply'[1].response # <<>>
                /\ reply'[1].response[1].status = "error"
                /\ reply'[1].response[1].output = <<>>
                /\ reply'[1].response[1].error[1].type = "runtime_error"
                /\ reply'[1].response[1].error[1].message = FailureMessage(calls'[i])
          /\ FailedCalls(calls') \cap {"get_all_tasks", "infer_dependencies"} # {} =>
                /\ "update_tasks_batch" \notin Called(calls')
                /\ db_client' = db_client]_vars

\* a request on the store-triggered path in which the store returned tasks,
\* inference was called and failed, and the answer is a runtime_error
C19_Witness ==
    /\ Responded /\ Triggers(Req)
    /\ db_client # <<>> /\ db_client[1] # <<>>
    /\ Len(calls) = 2
    /\ CallName(calls[2]) = "infer_dependencies" /\ CallFailed(calls[2])
    /\ Resp.status = "error" /\ ErrorType = "runtime_error"

(* ------------------------------ C20 ------------------------------------ *)
\* C20: when, on the store-triggered path, the store returns no tasks, the
\* response is a success whose result has dependencies = {},
\* execution_order = [] and the message "No tasks found in database";
\* get_all_tasks is the only collaborator call of the request and the store
\* stays as it was.
C20_EmptyStore ==
    [][/\ IsRequest /\ Triggers(reply'[1].request)
       /\ db_client = EmptyStoreClient
       /\ calls' # <<>> /\ ~CallFailed(calls'[1])
       =>
          /\ reply'[1].response # <<>>
          /\ reply'[1].response[1].status = "success"
          /\ reply'[1].response[1].error = <<>>
          /\ reply'[1].response[1].output[1].result =
                [dependencies |-> <<>>, execution_order |-> <<>>,
                 message |-> "No tasks found in database"]
          /\ Called(calls') = {"get_all_tasks"} /\ Len(calls') = 1
          /\ db_client' = db_client]_vars

\* a request on the store-triggered path answered with a success from an
\* empty store, on an agent that has an inference client
C20_Witness ==
    /\ Responded /\ Triggers(Req)
    /\ db_client = EmptyStoreClient /\ openrouter_client # <<>>
    /\ Resp.status = "success"
    /\ Len(calls) = 1 /\ CallName(calls[1]) = "get_all_tasks"

(* ------------- notions used to state the inference properties ---------- *)
\* the ids of the tasks of the inference under study, and what the client
\* returns for them
AskedIds == {inference[1].tasks[i].id : i \in 1..Len(inference[1].tasks)}
Inferred == inference[1].answer[1]
Mapped == inference[1].mapping[1]

(* ------------------------------ C21 ------------------------------------ *)
\* C21: the mapping _infer_dependencies_with_llm returns has exactly one
\* entry for each id of the input tasks and no other key; the entry of a
\* task the inference result mentions is the list inferred for it, the
\* entry of any other task is the empty list.
C21_CompleteMapping ==
    inference # <<>> /\ inference[1].mapping # <<>> /\ Mapped.raised = <<>> =>
        LET complete == Mapped.value[1]
            result == infer_dependencies(openrouter_client[1],
                          [i \in 1..Len(inference[1].tasks) |->
                              [id |-> inference[1].tasks[i].id]],
                          inference[1].fault).value[1]
        IN /\ Keys(complete) = AskedIds
           /\ Len(complete) = Cardinality(AskedIds)
           /\ \A id \in AskedIds :
                 DictAt(complete, id) =
                    IF id \in Keys(result) THEN DictAt(result, id) ELSE <<>>

\* a mapping for two tasks, of which the inference result mentions one
C21_Witness ==
    /\ inference # <<>> /\ inference[1].mapping # <<>> /\ Mapped.raised = <<>>
    /\ inference[1].answer # <<>> /\ Inferred.raised = <<>>
    /\ Cardinality(AskedIds) = 2
    /\ Cardinality(Keys(Inferred.value[1])) = 1
    /\ \E id \in AskedIds : DictAt(Mapped.value[1], id) # <<>>

(* ------------------------------ C29 ------------------------------------ *)
\* C29: infer_dependencies either fails with an error or returns a mapping
\* whose keys and whose listed dependency ids all are ids of the input
\* tasks.
C29_OnlyInputIds ==
    inference # <<>> /\ inference[1].answer # <<>> =>
        \/ Inferred.raised # <<>> /\ Inferred.value = <<>>
        \/ /\ Inferred.raised = <<>>
           /\ \A i \in 1..Len(Inferred.value[1]) :
                 /\ Inferred.value[1][i][1] \in AskedIds
                 /\ Range(Inferred.value[1][i][2]) \subseteq AskedIds

\* a returned mapping that lists a dependency, and (in another inference) an
\* answer naming a task outside the input that made the call fail
C29_Witness ==
    /\ inference # <<>> /\ inference[1].answer # <<>>
    /\ Inferred.raised = <<>>
    /\ \E i \in 1..Len(Inferred.value[1]) : Inferred.value[1][i][2] # <<>>

(* ------------------------------ C22 ------------------------------------ *)
\* the update_tasks_batch calls of a log
BatchCalls(log) == SelectSeq(log, LAMBDA c : CallName(c) = "update_tasks_batch")

\* C22: a request whose workflow reaches the update sends the store one
\* batch; its entries carry the positions 1..n in this order and the status
\* "ready", and when the workflow succeeds the i-th entry names the i-th
\* task of the returned execution_order with that task's list of the
\* returned dependencies.
C22_BatchShape ==
    Replied /\ BatchCalls(calls) # <<>> =>
        LET batch == CallArgument(BatchCalls(calls)[1])
        IN /\ Len(BatchCalls(calls)) = 1
           /\ \A i \in 1..Len(batch) :
                 batch[i].execution_order = i /\ batch[i].status = "ready"
           /\ Responded /\ Resp.status = "success" =>
                 LET result == Resp.output[1].result
                 IN /\ Len(batch) = Len(result.execution_order)
                    /\ \A i \in 1..Len(batch) :
                          batch[i] =
                             [id |-> result.execution_order[i],
                              depends_on |-> DictAt(result.dependencies,
                                                    result.execution_order[i]),
                              execution_order |-> i,
                              status |-> "ready"]

\* a successful workflow that wrote two tasks, the second depending on the
\* first
C22_Witness ==
    /\ Responded /\ Resp.status = "success" /\ BatchCalls(calls) # <<>>
    /\ Len(CallArgument(BatchCalls(calls)[1])) = 2
    /\ CallArgument(BatchCalls(calls)[1])[2].depends_on # <<>>
    /\ db_client[1][1].status = "ready"

(* ------------- notions used to state the ordering properties ----------- *)
\* what the ordering pass under study returned
Order == ordered[1]

\* a mapping as the inference path builds it: every dependency is a key
InferredMapping(d) == \A n \in Keys(d) : ~HasDangling(d, n)

\* every task of the order stands after every task it depends on
RespectsDependencies(d, order) ==
    \A i \in 1..Len(order) :
        \A dep \in Range(DictAt(d, order[i])) :
            \E j \in 1..(i - 1) : order[j] = dep

\* how often task n stands in the order
Occurrences(order, n) == Cardinality({i \in 1..Len(order) : order[i] = n})

\* C23 as stated: the order of _calculate_execution_order respects the
\* inferred dependencies, every task of it stands after every task it depends
\* on, and for an acyclic inferred mapping every task appears exactly once
C23_AsStated ==
    ordered # <<>> /\ InferredMapping(graph) =>
        /\ RespectsDependencies(graph, Order)
        /\ ~HasCycle(graph) =>
               \A n \in Keys(graph) : Occurrences(Order, n) = 1

\* C23, amended: the order respects the inferred dependencies and no task
\* stands in it twice; for an acyclic inferred mapping in which no task lists
\* a dependency more than once every task appears exactly once, and a task
\* that lists a dependency more than once is never in the order
C23_RespectsDependencies ==
    ordered # <<>> /\ InferredMapping(graph) =>
        /\ RespectsDependencies(graph, Order)
        /\ \A n \in Keys(graph) : Occurrences(Order, n) <= 1
        /\ Range(Order) \subseteq Keys(graph)
        /\ (~HasCycle(graph) /\ \A n \in Keys(graph) : ~HasRepeatedDep(graph, n)) =>
               \A n \in Keys(graph) : Occurrences(Order, n) = 1
        /\ \A n \in Keys(graph) : HasRepeatedDep(graph, n) => n \notin Range(Order)

\* an acyclic inferred mapping of three tasks, two edges in a chain, ordered
\* against the declaration order of its tasks
C23_Witness ==
    /\ ordered # <<>> /\ InferredMapping(graph) /\ ~HasCycle(graph)
    /\ \A n \in Keys(graph) : ~HasRepeatedDep(graph, n)
    /\ Len(graph) = 3 /\ Len(Order) = 3
    /\ Order # KeySeq(graph)
    /\ \E n \in Keys(graph) : Cardinality(ReachPlus(graph, n)) = 2

\* the execution order _resolve_dependencies of src/agent returns for d
ResolverOrder(d) == KahnOrder(d, CycleNodes(RawCycles(d)))

\* C24 as stated: on every dependency mapping _calculate_execution_order
\* returns the execution order of _resolve_dependencies
C24_AsStated ==
    ordered # <<>> => Order = ResolverOrder(graph)

\* C24, amended: on every mapping whose dependency ids are all keys of the
\* mapping (cycles and repeated entries included) the two passes return the
\* same order; on any mapping the resolver's order holds no task that the
\* order of _calculate_execution_order lacks
C24_SameOrderOnKeys ==
    ordered # <<>> =>
        /\ InferredMapping(graph) => Order = ResolverOrder(graph)
        /\ Range(ResolverOrder(graph)) \subseteq Range(Order)

\* the pass ran on a mapping whose dependencies are all keys, with a cycle,
\* a repeated entry and a task that is ordered
C24_Witness ==
    /\ ordered # <<>>
    /\ InferredMapping(graph) /\ Order # <<>>
    /\ HasCycle(graph)
    /\ \E n \in Keys(graph) : HasRepeatedDep(graph, n)

\* what process_task of src/agents returned, when it returned
InferredResult == returned[1].value[1]

\* the tasks on a cycle of d and the tasks that depend on one
CycleBound(d) ==
    {n \in Keys(d) : OnCycle(d, n) \/ \E k \in ReachPlus(d, n) : OnCycle(d, k)}

\* C25: when the inferred mapping has a cycle process_task returns a result
\* and raises nothing; the result has the two fields dependencies and
\* execution_order and no other (no error, no blocked list, no cycle report),
\* and its execution_order leaves out every task on a cycle and every task
\* depending on one, and holds every other task once
C25_SilentTruncation ==
    returned # <<>> /\ InferredMapping(graph) /\ HasCycle(graph) =>
        /\ returned[1].raised = <<>>
        /\ DOMAIN InferredResult = {"dependencies", "execution_order"}
        /\ InferredResult.dependencies = graph
        /\ Range(InferredResult.execution_order) \cap CycleBound(graph) = {}
        /\ Len(InferredResult.execution_order) < Len(graph)
        /\ \A n \in Keys(graph) \ CycleBound(graph) :
               (\A k \in Keys(graph) : ~HasRepeatedDep(graph, k)) =>
                   Occurrences(InferredResult.execution_order, n) = 1

\* a result for three tasks, one on a cycle, one depending on it and a free
\* one that is the whole execution_order
C25_Witness ==
    /\ returned # <<>> /\ InferredMapping(graph) /\ HasCycle(graph)
    /\ returned[1].raised = <<>>
    /\ Len(graph) = 3 /\ Len(InferredResult.execution_order) = 1
    /\ \E n \in CycleBound(graph) : ~OnCycle(graph, n)

(* ------------- notions used to state the retry properties -------------- *)
\* the frame of the call under study, its runs of the operation and its waits
Frame == retry[1]
IsAttempt(e) == e[1] = "attempt"
IsSleep(e) == e[1] = "sleep"
Attempts(f) == SelectSeq(f.events, IsAttempt)
Sleeps(f) == SelectSeq(f.events, IsSleep)

\* the call is made on a client with the default configuration
DefaultConfiguration(f) == f.max_retries = 3 /\ f.initial_backoff = 1

\* every failure of the call so far is a failure of the connection
OnlyTransient(f) ==
    \A i \in 1..Len(Attempts(f)) : Attempts(f)[i][2] \in Transient \cup {"ok"}

\* C26: with the default configuration the operation is attempted at most
\* three times; a success ends the call with its result and nothing runs
\* after it; a wait follows the failed attempt k (k = 0, 1) and lasts
\* initial_backoff * 2^k; the third transient failure in a row is raised
\* with no wait after it
C26_ThreeAttempts ==
    retry # <<>> /\ DefaultConfiguration(Frame) /\ OnlyTransient(Frame) =>
        LET att == Attempts(Frame)
            sl == Sleeps(Frame)
        IN /\ Len(att) <= 3 /\ Len(sl) <= 2
           /\ \A i \in 1..Len(Frame.events) :
                  IsAttempt(Frame.events[i]) <=> i % 2 = 1
           /\ \A k \in 1..Len(sl) :
                  /\ sl[k][2] = Frame.initial_backoff * Pow2(k - 1)
                  /\ att[k][2] \in Transient
           /\ \A i \in 1..Len(att) : att[i][2] = "ok" =>
                  /\ i = Len(att) /\ Len(Frame.events) = 2 * i - 1
                  /\ Frame.result = <<"returned", "ok">>
           /\ Frame.at = "done" =>
                  \/ /\ Frame.result = <<"returned", "ok">>
                     /\ att[Len(att)][2] = "ok"
                  \/ /\ Len(att) = 3 /\ Len(sl) = 2
                     /\ \A i \in 1..3 : att[i][2] \in Transient
                     /\ Frame.result = <<"raised", att[3][2]>>
           /\ (Len(att) = 3 /\ att[3][2] \in Transient) =>
                  Len(Frame.events) = 5 /\ Frame.at # "sleep"

\* two transient failures and then a success: three attempts and waits of
\* one and two seconds
C26_Witness ==
    /\ retry # <<>> /\ DefaultConfiguration(Frame) /\ OnlyTransient(Frame)
    /\ Frame.at = "done" /\ Frame.result = <<"returned", "ok">>
    /\ Len(Attempts(Frame)) = 3
    /\ Sleeps(Frame) = <<Slept(1), Slept(2)>>

\* the errors of the application: the ValueError of an update without an id
\* or with an id no stored task has, the OperationFailure of an operation
\* the store refuses
ApplicationErrors == {"ValueError", "OperationFailure"}

\* C27: an operation that fails with an application-level error is
\* attempted exactly once: its error is raised, with no wait and no retry
C27_NoRetryOfApplicationErrors ==
    retry # <<>> =>
        \A i \in 1..Len(Attempts(Frame)) :
            Attempts(Frame)[i][2] \in ApplicationErrors =>
                /\ i = Len(Attempts(Frame))
                /\ Frame.events[Len(Frame.events)] = Attempts(Frame)[i]
                /\ Frame.at = "done"
                /\ Frame.result = <<"raised", Attempts(Frame)[i][2]>>

(* ------------- notions used to state the transaction property ---------- *)
\* the call under study, the ids the store held before it, and the updates
\* of the batch that name the stored task id
Batch == transaction[1]
IdsBefore == {Batch.before[i].id : i \in 1..Len(Batch.before)}
UpdatesOf(id) == SelectSeq(Batch.task_updates, LAMBDA u : u.id = id)

\* an update of the batch lacks an id or names an id no stored task has
Offending ==
    \E i \in 1..Len(Batch.task_updates) :
        Batch.task_updates[i].id = NoId \/ Batch.task_updates[i].id \notin IdsBefore

\* C28: when an update of the batch lacks an id or names an id that no stored
\* task has the call raises and the store is as it was before the call;
\* otherwise, the store being reachable, the call returns True and every
\* stored task carries the fields of the last update that names it
C28_AllOrNothing ==
    transaction # <<>> /\ Batch.did # <<>> =>
        /\ Offending =>
              Batch.did[1].raised # <<>> /\ db_client[1] = Batch.before
        /\ Batch.fault # "none" =>
              Batch.did[1].raised # <<>> /\ db_client[1] = Batch.before
        /\ ~Offending /\ Batch.fault = "none" =>
              /\ Batch.did[1] = Gives(TRUE)
              /\ Len(db_client[1]) = Len(Batch.before)
              /\ \A i \in 1..Len(Batch.before) :
                    LET named == UpdatesOf(Batch.before[i].id)
                    IN IF named = <<>> THEN db_client[1][i] = Batch.before[i]
                       ELSE db_client[1][i] =
                              [id |-> Batch.before[i].id,
                               depends_on |-> named[Len(named)].depends_on,
                               execution_order |-> <<named[Len(named)].execution_order>>,
                               status |-> named[Len(named)].status]

\* a batch whose first update names a stored task and whose second update
\* names none has failed, and the stored task is as before
C28_Witness ==
    /\ transaction # <<>> /\ Batch.did # <<>>
    /\ Len(Batch.task_updates) = 2
    /\ Batch.task_updates[1].id \in IdsBefore
    /\ Batch.task_updates[2].id \notin IdsBefore \cup {NoId}
    /\ Batch.fault = "none"
    /\ Batch.did[1].raised # <<>>
    /\ db_client[1] = Batch.before

(* ------------- notions used to state the concurrency property ---------- *)
\* value is a complete result of the resolver for the graph of thread t, up
\* to the order in which the tasks are declared
CompleteFor(value, t) ==
    /\ {"execution_order", "blocked_tasks", "cycles_detected", "raw_graph"}
          \subseteq DOMAIN value
    /\ CanonicalKey(value.raw_graph) = CanonicalKey(BuildDag(threads[t].tasks))
    /\ \E cycle_list \in CycleListOrders(value.raw_graph) :
          LET resolved == _resolve_dependencies(value.raw_graph, cycle_list)
          IN /\ value.execution_order = resolved.order
             /\ value.blocked_tasks = resolved.blocked
             /\ value.cycles_detected = resolved.cycles

\* thread t has written its result under key k
Wrote(t, k) ==
    /\ threads[t].at \in {"save", "done"}
    /\ threads[t].result # <<>>
    /\ threads[t].key = <<k>>

\* C30: whatever the interleaving of the steps of the requests, every key of
\* the in-memory cache maps to the whole result one of the requests wrote
\* under that key, and every request that returned has returned a complete
\* result for its own graph
C30_LastWriteWins ==
    threads # <<>> =>
        /\ \A k \in DOMAIN _ltm_store :
              \E t \in DOMAIN threads :
                 /\ Wrote(t, k)
                 /\ _ltm_store[k] = threads[t].result[1]
                 /\ DOMAIN _ltm_store[k] =
                       {"execution_order", "blocked_tasks", "cycles_detected",
                        "raw_graph"}
                 /\ CompleteFor(_ltm_store[k], t)
        /\ \A t \in DOMAIN threads :
              threads[t].at = "done" => CompleteFor(threads[t].payload[1], t)

\* two requests have written different results under the same key, one after
\* the other, and both have returned: the cache holds one of the two results
C30_Witness ==
    /\ threads # <<>> /\ Len(threads) >= 2
    /\ threads[1].at = "done" /\ threads[2].at = "done"
    /\ threads[1].key = threads[2].key
    /\ threads[1].result # <<>> /\ threads[2].result # <<>>
    /\ threads[1].result # threads[2].result
    /\ _ltm_store[threads[1].key[1]] = threads[2].result[1]

(* ------------- notions used to state the termination property ---------- *)
\* the call run step by step has returned
Returned_from_walk == walk # <<>> /\ walk[1].at = "done"

\* C31: on every graph, with cycles, self-dependencies, repeated entries or
\* dependencies on absent tasks, the call of the resolver reaches its return:
\* the depth-first search and the queue loop both end
C31_Terminates == <>Returned_from_walk

\* the call has returned for a graph of two tasks on a cycle, after a search
\* that recorded the cycle and a queue loop that had nothing to order
C31_Witness ==
    /\ Returned_from_walk
    /\ Len(graph) = 2 /\ HasCycle(graph)
    /\ \A n \in Keys(graph) : OnCycle(graph, n)
    /\ resolution[1].cycles # <<>>
    /\ resolution[1].order = <<>>

(* ------------------------------ C32 ------------------------------------ *)
\* the position of task n in the declaration order of d
Declared(d, n) == IndexOf(KeySeq(d), n)

\* the number of tasks emitted when n enters the queue: 0 for a task without
\* dependencies, else the position in order of its last emitted dependency
ReleasedAt(d, order, n) ==
    LET at == {i \in 1..Len(order) : order[i] \in Range(DictAt(d, n))}
    IN IF at = {} THEN 0 ELSE CHOOSE i \in at : \A j \in at : j <= i

\* n enters the queue at some time: it is on no recorded cycle, and declares no
\* dependency or only emitted ones, each listed once
Released(d, order, cyc, n) ==
    /\ n \notin cyc
    /\ \/ DictAt(d, n) = <<>>
       \/ ~HasRepeatedDep(d, n) /\ Range(DictAt(d, n)) \subseteq Range(order)

\* p before q in the first-in-first-out order, rel giving the time each task
\* is released: released earlier, or by the same emission and declared earlier
QueuedBefore(d, rel, p, q) ==
    \/ rel[p] < rel[q]
    \/ rel[p] = rel[q] /\ Declared(d, p) < Declared(d, q)

\* the tasks that declare no dependencies, in declaration order
Seeds(d) == SelectSeq(KeySeq(d), LAMBDA n : DictAt(d, n) = <<>>)

\* C32: execution_order is the first-in-first-out Kahn order over the
\* declaration order: it begins with the tasks on no cycle that declare no
\* dependencies, in declaration order; a task enters the queue when the
\* emission of a dependency brings its in-degree to zero, the tasks released by
\* one emission in declaration order, and the tasks leave in the order they
\* entered
C32_FifoKahnOrder ==
    Resolved =>
        \A order \in {Out.order} :
          \A rel \in {[n \in Range(order) |-> ReleasedAt(graph, order, n)]} :
            /\ SubSeq(order, 1, Len(Seeds(graph))) = Seeds(graph)
            /\ Range(order) =
                  {n \in Keys(graph) :
                      Released(graph, order, CycleNodes(Out.cycles), n)}
            /\ \A i \in 1..Len(order) : rel[order[i]] < i
            /\ \A i, j \in 1..Len(order) :
                  i < j => QueuedBefore(graph, rel, order[i], order[j])

\* three tasks are ordered, and a task released by the first emission leaves
\* after a task without dependencies that is declared after it
C32_Witness ==
    /\ Resolved
    /\ Len(Out.order) = 3
    /\ \E i, j \in 1..3 :
          /\ i < j
          /\ DictAt(graph, Out.order[i]) = <<>>
          /\ ReleasedAt(graph, Out.order, Out.order[j]) = 1
          /\ Declared(graph, Out.order[j]) < Declared(graph, Out.order[i])

(* ------------------------------ C33 ------------------------------------ *)
\* C33: a task that lists the same dependency more than once is never placed
\* in execution_order and is reported in blocked_tasks, also when that
\* dependency is scheduled: every listed entry is counted, one is taken off
\* per emitted dependency
C33_RepeatedEntryBlocks ==
    Resolved =>
        \A n \in Keys(graph) :
            HasRepeatedDep(graph, n) =>
                /\ n \notin Range(Out.order)
                /\ n \in Range(Out.blocked)

\* a task on no cycle lists one scheduled task twice and nothing else, and is
\* blocked
C33_Witness ==
    /\ Resolved
    /\ \E n \in Keys(graph) :
          /\ Len(DictAt(graph, n)) = 2
          /\ Cardinality(Range(DictAt(graph, n))) = 1
          /\ Range(DictAt(graph, n)) \subseteq Range(Out.order)
          /\ ~OnCycle(graph, n)
          /\ n \in Range(Out.blocked)

(* ------------------------------ C34 ------------------------------------ *)
\* the positions of the records of raw that no earlier record equals
FirstOccurrences(raw) ==
    {i \in 1..Len(raw) : \A j \in 1..(i - 1) : raw[j] # raw[i]}

\* the k-th position of the set of positions I
NthOf(I, k) == CHOOSE i \in I : Cardinality({j \in I : j < i}) = k - 1

\* C34: cycles_detected never holds two records with identical node
\* sequences: it is the list of the raw cycle records with every record that
\* equals an earlier one element for element left out, the others in their
\* original order
C34_ExactDedup ==
    Resolved =>
        \A raw \in {RawCycles(graph)} :
          \A kept \in {FirstOccurrences(raw)} :
            /\ \A i, j \in 1..Len(Out.cycles) :
                  i # j => Out.cycles[i] # Out.cycles[j]
            /\ Len(Out.cycles) = Cardinality(kept)
            /\ \A k \in 1..Len(Out.cycles) : Out.cycles[k] = raw[NthOf(kept, k)]

\* the search recorded the same sequence twice and another one after it; two
\* records are reported
C34_Witness ==
    /\ Resolved
    /\ Len(RawCycles(graph)) = 3
    /\ RawCycles(graph)[1] = RawCycles(graph)[2]
    /\ Len(Out.cycles) = 2

(* ------------------------------ C38 ------------------------------------ *)
\* the tasks of a cycle record without the closing repetition of the first
LoopOf(cycle) == SubSeq(cycle, 1, Len(cycle) - 1)

\* s is the loop r started t tasks later
RotatedBy(r, s, t) ==
    /\ Len(r) = Len(s)
    /\ \A i \in 1..Len(r) : s[i] = r[((i - 1 + t) % Len(r)) + 1]

\* the records r and s describe the same loop, started at different tasks
Rotations(r, s) ==
    \E t \in 1..(Len(LoopOf(r)) - 1) : RotatedBy(LoopOf(r), LoopOf(s), t)

\* C38: cycles_detected never holds two records that are rotations of one
\* another, the same loop started at a different task: a task is pushed on the
\* stack of the search at most once, so a loop is recorded from one task only
C38_NoRotations ==
    Resolved =>
        \A i, j \in 1..Len(Out.cycles) :
            i # j => ~Rotations(Out.cycles[i], Out.cycles[j])

\* a loop through two tasks is recorded, started at one of them, and a third
\* task that leads to the loop was searched after it
C38_Witness ==
    /\ Resolved
    /\ Len(graph) = 3
    /\ \E i \in 1..Len(Out.cycles) : Len(Out.cycles[i]) = 3
    /\ LET late == graph[3][1]
       IN /\ ~OnCycle(graph, late)
          /\ \E dep \in Range(DictAt(graph, late)) :
                dep \in Keys(graph) /\ OnCycle(graph, dep)

(* ------------------------------ C35 ------------------------------------ *)
\* the latest call computed its result and the cache file was written
ComputedAndSaved ==
    last # <<>> /\ last[1].ran_resolver /\ ~last[1].save_failed

\* the payloads p and q agree on execution_order, blocked_tasks and
\* cycles_detected
SameThree(p, q) ==
    /\ p.execution_order = q.execution_order
    /\ p.blocked_tasks = q.blocked_tasks
    /\ p.cycles_detected = q.cycles_detected

\* C35: the cache round-trips through its file: once process_task has
\* computed a result and the file was written, the file holds every entry of
\* the cache in memory, and an agent constructed on that file afterwards
\* answers the same task list with a hit, from_ltm = True, whose
\* execution_order, blocked_tasks and cycles_detected are those of the
\* original result
C35_RoundTrip ==
    [][ComputedAndSaved =>
          /\ ltm_file.state = "ok"
          /\ json_load(ltm_file.content) = _ltm_store
          /\ (last' = <<>> =>
                \A cycle_list \in CycleListOrders(BuildDag(last[1].tasks)),
                   outcome \in SaveOutcomes :
                    \A again \in {process_task(_ltm_store', ltm_file', last[1].tasks,
                                                cycle_list, outcome)} :
                        /\ ~again.ran_resolver
                        /\ again.store = _ltm_store'
                        /\ Tagged(again.payload)
                        /\ SameThree(again.payload, last[1].payload))]_vars

\* the first call on an agent constructed on a written file was answered
\* from the cache, for a list of two tasks, while the file holds two entries
C35_Witness ==
    /\ last # <<>>
    /\ last[1].first_call
    /\ ~last[1].ran_resolver
    /\ Len(last[1].tasks) = 2
    /\ ltm_file.state = "ok"
    /\ Cardinality(ltm_file.content) = 2

(* ------------------------------ C37 ------------------------------------ *)
\* C37: the cache is transparent: whatever calls were made before on the
\* agent, the execution_order, blocked_tasks and cycles_detected a
\* process_task call returns are those the resolver computes for the task
\* list of that call, whether the call was answered from the cache or
\* computed, also when an earlier call gave the same tasks and dependency
\* lists in another declaration order
C37_Transparent ==
    [][IsCall =>
          \A g \in {BuildDag(last'[1].tasks)} :
            \E cycle_list \in CycleListOrders(g) :
                SameThree(last'[1].payload,
                          FreshResult(g, _resolve_dependencies(g, cycle_list)))]_vars

(* ------------------------------ C36 ------------------------------------ *)
\* the call recorded in r was answered with one of the three rejections
Rejection(r) ==
    /\ r.response # <<>>
    /\ r.response[1].status = "error"
    /\ r.response[1].error[1].type \in
          {"invalid_agent", "unsupported_intent", "invalid_input"}

C39_EveryTaskUpdated ==
    (/\ Responded /\ Triggers(Req) /\ Resp.status = "success"
     /\ db_client # <<>> /\ db_client[1] # <<>>) =>
        /\ BatchCalls(calls) # <<>>
        /\ \A written \in {CallArgument(BatchCalls(calls)[1])} :
              /\ Len(written) = Len(db_client[1])
              /\ \A i \in 1..Len(db_client[1]) :
                    Cardinality({j \in 1..Len(written) :
                                    written[j].id = db_client[1][i].id}) = 1

(* ------------------------------ C40 ------------------------------------ *)
\* C40: whatever max_retries the client was configured with, 0 included, a
\* call of _retry_with_backoff that has ended ran the operation at least
\* once, and when it ended by raising, the exception is the one the last run
\* of the operation raised
C40_RunsOnceAndRaisesLast ==
    (retry # <<>> /\ Frame.at = "done") =>
        /\ Len(Attempts(Frame)) >= 1
        /\ Frame.result[1] = "raised" =>
              Frame.result[2] = Attempts(Frame)[Len(Attempts(Frame))][2]

====
